---- MODULE Spec2Model ----
(***************************************************************************)
(* A model of near-crosschain-oracle-poc:                                  *)
(*   - the VAA payload extraction of the relayer (relayer/src/relay.ts),   *)
(*   - the ASN.1 DER parser, the X.509 walk and the RSA key extraction of  *)
(*     the Chainlink Functions source (chainlink-functions/source.js),     *)
(*   - the watcher loop of the relayer (watchAndRelay),                    *)
(*   - the GoogleCertFunctionsConsumer contract,                           *)
(*   - the Chainlink external adapter (chainlink-adapter/src/index.ts),    *)
(*   - the polling loop of the bot (bot/src).                              *)
(* JavaScript values are modelled as integers: a byte is 0..255, the value *)
(* `undefined` read from an index outside a typed array is Undefined, and  *)
(* the number NaN is NaN.  Strings are sequences of UTF-16 code units.     *)
(***************************************************************************)
EXTENDS Integers, Sequences, FiniteSets, TLC

VARIABLES
    vaaResponse,   \* relay.ts: what axios.get(url) produced in fetchVAA
    vaaOut,        \* relay.ts: the outcome of fetchVAA
    asnInput,      \* source.js: how the input buffer was built (fixture descriptor)
    asnBytes,      \* source.js: the Uint8Array handed to the decoder
    asnOut,        \* source.js: the outcome of the operation applied to asnBytes
    watchPc,       \* relay.ts watchAndRelay: "poll" before getRecentVAAs, "relay" in the for loop
    vaas,          \* relay.ts 230: the sequences of this cycle the for loop has yet to visit
    lastSequence,  \* relay.ts 216
    emitted,       \* Wormholescan: the sequences 1..emitted are listed for the emitter
    available,     \* Wormholescan: the sequences whose signed VAA can be fetched
    awaiting,      \* the sequences whose latest relay attempt threw "VAA not available yet"
    submitted,     \* NEAR: how many times each sequence was submitted with success
    watchEvent,    \* the latest step of the watcher
    callBufs,      \* the buffers that the decoding operations are called on
    callFirst,     \* per buffer and operation, what its first call returned
    callLast,      \* the latest call: buffer, operation and what it returned
    con,           \* GoogleCertFunctionsConsumer: its storage and its balance
    chain,         \* Arbitrum: block.timestamp, the Functions router, the Wormhole core
    conTx,         \* the latest transaction sent to the consumer and its outcome
    lastPublishedHash, \* index.ts 29
    adapterConfig, \* index.ts 18-20: ARBITRUM_RPC_URL, PRIVATE_KEY and EMITTER_ADDRESS are set
    runs,          \* index.ts 196: the calls of publishToWormhole in progress
    google,        \* the certificate document Google serves to the adapter
    published,     \* Arbitrum: the hash of the latest confirmed publishCertSnapshot
    adapterEvent,  \* the latest step of a call of publishToWormhole
    post,          \* the latest POST / and the response to it
    bot,           \* bot main: its position, lastCerts and currentCerts
    botGoogle,     \* the certificate document Google serves to the bot
    botSent,       \* Arbitrum: the payload of the latest publishGoogleSnapshot
    botEvent,      \* the latest step of the bot
    emitter,       \* GoogleCertEmitter: owner and balance
    emitterTx      \* the latest transaction sent to the emitter and its outcome

vaaVars == <<vaaResponse, vaaOut>>
asnVars == <<asnInput, asnBytes, asnOut>>
watchVars == <<watchPc, vaas, lastSequence, emitted, available, awaiting, submitted, watchEvent>>
callVars == <<callBufs, callFirst, callLast>>
conVars == <<con, chain, conTx>>
adapterVars == <<lastPublishedHash, adapterConfig, runs, google, published, adapterEvent>>
postVars == <<post>>
botVars == <<bot, botGoogle, botSent, botEvent>>
emitterVars == <<emitter, emitterTx>>
vars == <<vaaResponse, vaaOut, asnInput, asnBytes, asnOut,
          watchPc, vaas, lastSequence, emitted, available, awaiting, submitted, watchEvent,
          callBufs, callFirst, callLast,
          con, chain, conTx,
          lastPublishedHash, adapterConfig, runs, google, published, adapterEvent, post,
          bot, botGoogle, botSent, botEvent,
          emitter, emitterTx>>

\* The variables each specification leaves alone.
vaaFrame == <<asnVars, watchVars, callVars, conVars, adapterVars, postVars, botVars, emitterVars>>
asnFrame == <<vaaVars, watchVars, callVars, conVars, adapterVars, postVars, botVars, emitterVars>>
watchFrame == <<vaaVars, asnVars, callVars, conVars, adapterVars, postVars, botVars, emitterVars>>
callFrame == <<vaaVars, asnVars, watchVars, conVars, adapterVars, postVars, botVars, emitterVars>>
conFrame == <<vaaVars, asnVars, watchVars, callVars, adapterVars, postVars, botVars, emitterVars>>
adapterFrame == <<vaaVars, asnVars, watchVars, callVars, conVars, postVars, botVars, emitterVars>>
postFrame == <<vaaVars, asnVars, watchVars, callVars, conVars, adapterVars, botVars, emitterVars>>
botFrame == <<vaaVars, asnVars, watchVars, callVars, conVars, adapterVars, postVars, emitterVars>>
emitterFrame == <<vaaVars, asnVars, watchVars, callVars, conVars, adapterVars, postVars, botVars>>

WatchIdle ==
    /\ watchPc = "idle"
    /\ vaas = <<>>
    /\ lastSequence = 0
    /\ emitted = 0
    /\ available = {}
    /\ awaiting = {}
    /\ submitted = <<>>
    /\ watchEvent = [kind |-> "idle"]

CallIdle ==
    /\ callBufs = <<>>
    /\ callFirst = <<>>
    /\ callLast = [kind |-> "idle"]

ConIdle ==
    /\ con = [kind |-> "idle"]
    /\ chain = [kind |-> "idle"]
    /\ conTx = [kind |-> "idle"]

AdapterIdle ==
    /\ lastPublishedHash = [kind |-> "idle"]
    /\ adapterConfig = FALSE
    /\ runs = <<>>
    /\ google = <<>>
    /\ published = [kind |-> "idle"]
    /\ adapterEvent = [kind |-> "idle"]

PostIdle == post = [kind |-> "idle"]

BotIdle ==
    /\ bot = [kind |-> "idle"]
    /\ botGoogle = <<>>
    /\ botSent = [kind |-> "idle"]
    /\ botEvent = [kind |-> "idle"]

EmitterIdle ==
    /\ emitter = [kind |-> "idle"]
    /\ emitterTx = [kind |-> "idle"]

(***************************************************************************)
(* JavaScript values and arithmetic                                        *)
(***************************************************************************)
Undefined == -1
NaN == -2

Min(a, b) == IF a < b THEN a ELSE b
Max(a, b) == IF a > b THEN a ELSE b

\* bytes[i] of a Buffer / Uint8Array: undefined outside 0..length-1.
ByteAt(bytes, i) == IF i >= 0 /\ i < Len(bytes) THEN bytes[i + 1] ELSE Undefined

\* ToInt32 of a value read from a typed array: undefined converts to 0.
ByteToInt32(b) == IF b = Undefined THEN 0 ELSE b

\* (length << 8) | b on 32-bit integers: the low 24 bits of length move up by
\* eight bits and bit 23 becomes the sign bit; undefined | is 0.
Shl8Or(length, b) ==
    LET low == length % 16777216
    IN  IF low < 8388608 THEN low * 256 + ByteToInt32(b)
        ELSE (low - 16777216) * 256 + ByteToInt32(b)

\* a * b and a + b on Numbers, where undefined converts to NaN and NaN propagates.
JsMul(a, b) == IF a \in {Undefined, NaN} \/ b \in {Undefined, NaN} THEN NaN ELSE a * b
JsAdd(a, b) == IF a \in {Undefined, NaN} \/ b \in {Undefined, NaN} THEN NaN ELSE a + b

\* Buffer.prototype.slice(start): NaN and 0 give 0, a start past the end gives
\* the length (an empty slice).  The starts computed here are never negative.
BufferSlice(buf, start) ==
    LET s == IF start = NaN \/ start = 0 THEN 0
             ELSE IF start < Len(buf) THEN start ELSE Len(buf)
    IN  SubSeq(buf, s + 1, Len(buf))

(***************************************************************************)
(* Buffer.prototype.toString("utf8"): the WHATWG UTF-8 decoder with        *)
(* U+FFFD replacement, producing UTF-16 code units.                        *)
(***************************************************************************)
ReplacementChar == 65533

CodeUnits(cp) ==
    IF cp < 65536 THEN <<cp>>
    ELSE <<55296 + ((cp - 65536) \div 1024), 56320 + ((cp - 65536) % 1024)>>

RECURSIVE Utf8Step(_, _, _, _, _, _, _)
Utf8Step(bs, i, cp, needed, seen, lower, upper) ==
    IF i > Len(bs)
    THEN IF needed # 0 THEN <<ReplacementChar>> ELSE <<>>
    ELSE LET b == bs[i] IN
         IF needed = 0
         THEN IF b <= 127 THEN <<b>> \o Utf8Step(bs, i + 1, 0, 0, 0, 128, 191)
              ELSE IF b >= 194 /\ b <= 223
                   THEN Utf8Step(bs, i + 1, b % 32, 1, 0, 128, 191)
              ELSE IF b >= 224 /\ b <= 239
                   THEN Utf8Step(bs, i + 1, b % 16, 2, 0,
                                 IF b = 224 THEN 160 ELSE 128,
                                 IF b = 237 THEN 159 ELSE 191)
              ELSE IF b >= 240 /\ b <= 244
                   THEN Utf8Step(bs, i + 1, b % 8, 3, 0,
                                 IF b = 240 THEN 144 ELSE 128,
                                 IF b = 244 THEN 143 ELSE 191)
              ELSE <<ReplacementChar>> \o Utf8Step(bs, i + 1, 0, 0, 0, 128, 191)
         ELSE IF b < lower \/ b > upper
              \* the byte is not a continuation: emit U+FFFD and decode it again
              THEN <<ReplacementChar>> \o Utf8Step(bs, i, 0, 0, 0, 128, 191)
              ELSE IF seen + 1 = needed
                   THEN CodeUnits(cp * 64 + (b % 64))
                        \o Utf8Step(bs, i + 1, 0, 0, 0, 128, 191)
                   ELSE Utf8Step(bs, i + 1, cp * 64 + (b % 64), needed, seen + 1, 128, 191)

toStringUtf8(bs) == Utf8Step(bs, 1, 0, 0, 0, 128, 191)

(***************************************************************************)
(* relayer/src/relay.ts: fetchVAA                                          *)
(***************************************************************************)
SignatureCountIndex == 5
HeaderLen == 6
SignatureLen == 66
BodyHeaderLen == 51

\* A plausible slip: a signature record counted as 65 bytes (r, s and the
\* recovery byte, without the guardian index).
payloadOffsetOf_ShortSignature(vaaBytes) ==
    JsAdd(JsAdd(HeaderLen, JsMul(ByteAt(vaaBytes, SignatureCountIndex), SignatureLen - 1)),
          BodyHeaderLen)

\* A plausible slip: a version byte other than 0 is taken to lengthen the body
\* header by one byte.
payloadOffsetOf_VersionDependent(vaaBytes) ==
    LET signatureCount == ByteAt(vaaBytes, SignatureCountIndex)
        bodyOffset == JsAdd(HeaderLen, JsMul(signatureCount, SignatureLen))
    IN  JsAdd(bodyOffset,
              IF ByteAt(vaaBytes, 0) = 0 THEN BodyHeaderLen ELSE BodyHeaderLen + 1)

\* relay.ts 77-79
payloadOffsetOf(vaaBytes) ==
    LET signatureCount == ByteAt(vaaBytes, SignatureCountIndex)
        bodyOffset == JsAdd(HeaderLen, JsMul(signatureCount, SignatureLen))
    IN  JsAdd(bodyOffset, BodyHeaderLen)

\* relay.ts 77-82: the part of fetchVAA that runs on the decoded buffer.
extractPayload(vaaBytes) ==
    [kind |-> "value",
     vaaBytes |-> vaaBytes,
     payload |-> toStringUtf8(BufferSlice(vaaBytes, payloadOffsetOf(vaaBytes)))]

\* relay.ts 69-89: a 404 gives null, any other error is thrown again.
\* A plausible slip: every failed request is taken for a VAA that is not
\* signed yet.
fetchVAA_NullOnAnyError(response) ==
    IF response.kind = "ok" THEN extractPayload(response.vaaBytes)
    ELSE [kind |-> "null"]

fetchVAA(response) ==
    IF response.kind = "ok" THEN extractPayload(response.vaaBytes)
    ELSE IF response.kind = "http" /\ response.status = 404 THEN [kind |-> "null"]
    ELSE [kind |-> "throw", error |-> response.kind]

(***************************************************************************)
(* chainlink-functions/source.js: the ASN.1 DER parser                     *)
(*                                                                         *)
(* A call returns a node, throws ([kind |-> "throw"]) or never returns     *)
(* ([kind |-> "hang"]: the child loop of parseAsn1 pushes children without *)
(* end).  parseAsn1 is a pure function of (bytes, offset), so a call on an *)
(* offset that is already being parsed higher up the call stack recurses   *)
(* without end (the engine throws RangeError), and a child loop that comes *)
(* back to an offset it already parsed repeats for ever.                   *)
(***************************************************************************)
\* Uint8Array.prototype.subarray(begin, end): a negative index counts from the
\* end, both are clamped to 0..length, an empty range gives an empty array.
Subarray(bytes, begin, end) ==
    LET len == Len(bytes)
        rb == IF begin < 0 THEN Max(len + begin, 0) ELSE Min(begin, len)
        re == IF end < 0 THEN Max(len + end, 0) ELSE Min(end, len)
    IN  SubSeq(bytes, rb + 1, re)

\* source.js 36-39
RECURSIVE readLengthLoop(_, _, _, _, _)
readLengthLoop(bytes, offset, numBytes, i, length) ==
    IF i < numBytes
    THEN readLengthLoop(bytes, offset, numBytes, i + 1,
                        Shl8Or(length, ByteAt(bytes, offset + 1 + i)))
    ELSE length

\* A plausible slip: the long form always reads exactly one length byte.
readLength_OneByteLongForm(bytes, offset) ==
    LET lenByte == ByteAt(bytes, offset)
    IN  IF lenByte # Undefined /\ lenByte < 128
        THEN [length |-> lenByte, lengthBytes |-> 1]
        ELSE [length |-> ByteToInt32(ByteAt(bytes, offset + 1)),
              lengthBytes |-> 1 + (ByteToInt32(lenByte) % 128)]

\* source.js 30-41.  undefined < 0x80 is false and undefined & 0x7f is 0.
readLength(bytes, offset) ==
    LET lenByte == ByteAt(bytes, offset)
    IN  IF lenByte # Undefined /\ lenByte < 128
        THEN [length |-> lenByte, lengthBytes |-> 1]
        ELSE LET numBytes == ByteToInt32(lenByte) % 128
                 \* << 8 drops the top eight of 32 bits, so the bytes before
                 \* the last four leave no trace in the result
                 first == Max(0, numBytes - 4)
             IN  [length |-> readLengthLoop(bytes, offset, numBytes, first, 0),
                  lengthBytes |-> 1 + numBytes]

\* A plausible slip: the class is taken with a shift of five bits.
TagClass_ShiftFive(tag) == ByteToInt32(tag) \div 32

\* source.js 51-53
IsConstructed(tag) == (ByteToInt32(tag) \div 32) % 2 # 0
TagNumber(tag) == ByteToInt32(tag) % 32
TagClass(tag) == ByteToInt32(tag) \div 64

\* source.js 45-65 at an offset at or past the end of the buffer: the tag and
\* the length byte are undefined, so the node is primitive, has length 0 and
\* ends two bytes after its start.
PastEndNode(start) ==
    [kind |-> "node",
     tag |-> Undefined,
     tagClass |-> TagClass(Undefined),
     tagNumber |-> TagNumber(Undefined),
     constructed |-> IsConstructed(Undefined),
     start |-> start,
     end |-> start + 2,
     length |-> 0,
     value |-> <<>>,
     sub |-> <<>>]

\* source.js 69-73 once childOffset is at or past the end of the buffer: one
\* such node for every second offset below end.
PastEndChildren(childOffset, end) ==
    [k \in 1..((end - childOffset + 1) \div 2) |-> PastEndNode(childOffset + 2 * (k - 1))]

RECURSIVE parseAsn1At(_, _, _)
RECURSIVE parseChildren(_, _, _, _, _, _)

\* source.js 68-73: the child loop.  active: the offsets being parsed up the
\* call stack; visited: the offsets this loop has already parsed.
parseChildren(bytes, childOffset, end, active, visited, sub) ==
    IF ~(childOffset < end) THEN [kind |-> "children", sub |-> sub]
    ELSE IF childOffset >= Len(bytes)
    THEN [kind |-> "children", sub |-> sub \o PastEndChildren(childOffset, end)]
    ELSE IF childOffset \in visited THEN [kind |-> "hang"]
    ELSE LET child == parseAsn1At(bytes, childOffset, active)
         IN  IF child.kind # "node" THEN child
             ELSE parseChildren(bytes, child.end, end, active,
                                visited \cup {childOffset}, Append(sub, child))

\* source.js 43-77
parseAsn1At(bytes, start, active) ==
    IF start \in active THEN [kind |-> "throw", error |-> "RangeError"]
    ELSE LET tag == ByteAt(bytes, start)
             rl == readLength(bytes, start + 1)
             offset == start + 1 + rl.lengthBytes
             end == offset + rl.length
             constructed == IsConstructed(tag)
             kids == IF constructed
                     THEN parseChildren(bytes, offset, end, active \cup {start}, {}, <<>>)
                     ELSE [kind |-> "children", sub |-> <<>>]
         IN  IF kids.kind # "children" THEN kids
             ELSE [kind |-> "node",
                   tag |-> tag,
                   tagClass |-> TagClass(tag),
                   tagNumber |-> TagNumber(tag),
                   constructed |-> constructed,
                   start |-> start,
                   end |-> end,
                   length |-> rl.length,
                   value |-> Subarray(bytes, offset, end),
                   sub |-> kids.sub]

parseAsn1(bytes, offset) == parseAsn1At(bytes, offset, {})

(***************************************************************************)
(* source.js: INTEGER cleanup and hex conversion                           *)
(***************************************************************************)
\* A plausible slip: the loop lacks the guard that keeps the last byte.
RECURSIVE paddingEnd_NoLengthGuard(_, _)
paddingEnd_NoLengthGuard(intBytes, i) ==
    IF i < Len(intBytes) /\ ByteAt(intBytes, i) = 0
    THEN paddingEnd_NoLengthGuard(intBytes, i + 1)
    ELSE i

\* source.js 83-84: the index of the first byte kept.
RECURSIVE paddingEnd(_, _)
paddingEnd(intBytes, i) ==
    IF i < Len(intBytes) - 1 /\ ByteAt(intBytes, i) = 0
    THEN paddingEnd(intBytes, i + 1)
    ELSE i

\* A plausible slip: an if in place of the while, so that one zero byte at
\* most is dropped.
stripIntegerPadding_AtMostOne(intBytes) ==
    IF 0 < Len(intBytes) - 1 /\ ByteAt(intBytes, 0) = 0
    THEN Subarray(intBytes, 1, Len(intBytes))
    ELSE intBytes

\* source.js 82-86.  subarray(i) runs to the end of the array.
stripIntegerPadding(intBytes) == Subarray(intBytes, paddingEnd(intBytes, 0), Len(intBytes))

HexDigits == <<"0", "1", "2", "3", "4", "5", "6", "7",
               "8", "9", "a", "b", "c", "d", "e", "f">>

\* source.js 88-92: two lower-case digits per byte, joined.
bytesToHex(bytes) ==
    [k \in 1..(2 * Len(bytes)) |->
        LET b == bytes[(k + 1) \div 2]
        IN  IF k % 2 = 1 THEN HexDigits[(b \div 16) + 1] ELSE HexDigits[(b % 16) + 1]]

(***************************************************************************)
(* source.js: the walk to SubjectPublicKeyInfo                             *)
(***************************************************************************)
\* node.sub[i]: undefined outside the array.
SubAt(sub, i) == IF i >= 0 /\ i < Len(sub) THEN sub[i + 1] ELSE [kind |-> "undefined"]

Throw(message) == [kind |-> "throw", error |-> "Error", message |-> message]

\* source.js 108-113: 1 when the first field of the TBSCertificate exists and
\* is context-specific with tag number 0, else 0.
VersionSlots(tbs) ==
    LET first == SubAt(tbs.sub, 0)
    IN  IF first.kind = "node" /\ first.tagClass = 2 /\ first.tagNumber = 0 THEN 1 ELSE 0

SpkiPosition == 5

\* A plausible slip: the SPKI is returned without the check that it exists.
spkiOfTbs_Unchecked(tbs) == SubAt(tbs.sub, VersionSlots(tbs) + SpkiPosition)

\* source.js 108-118
spkiOfTbs(tbs) ==
    LET spki == SubAt(tbs.sub, VersionSlots(tbs) + SpkiPosition)
    IN  IF spki.kind = "undefined"
        THEN Throw("Invalid certificate: SubjectPublicKeyInfo not found")
        ELSE spki

\* A plausible slip: the optional version field is never skipped.
spkiOfCertNode_NoVersionSkip(certNode) ==
    IF ~certNode.constructed \/ Len(certNode.sub) < 1
    THEN Throw("Invalid certificate: not a SEQUENCE or missing children")
    ELSE IF ~SubAt(certNode.sub, 0).constructed
    THEN Throw("Invalid certificate: TBSCertificate not constructed")
    ELSE LET spki == SubAt(SubAt(certNode.sub, 0).sub, SpkiPosition)
         IN  IF spki.kind = "undefined"
             THEN Throw("Invalid certificate: SubjectPublicKeyInfo not found")
             ELSE spki

\* source.js 99-118: the walk from the parsed certificate.
spkiOfCertNode(certNode) ==
    IF ~certNode.constructed \/ Len(certNode.sub) < 1
    THEN Throw("Invalid certificate: not a SEQUENCE or missing children")
    ELSE LET tbs == SubAt(certNode.sub, 0)
         IN  IF ~tbs.constructed
             THEN Throw("Invalid certificate: TBSCertificate not constructed")
             ELSE spkiOfTbs(tbs)

\* source.js 97-119
getSubjectPublicKeyInfoNode(certDer) ==
    LET certNode == parseAsn1(certDer, 0)
    IN  IF certNode.kind # "node" THEN certNode ELSE spkiOfCertNode(certNode)

\* source.js 111 and 116: the indexes of tbs.sub the walk reads, in order
\* (none when it throws before it reaches the TBSCertificate's children).
subIndexesRead(certNode) ==
    IF ~certNode.constructed \/ Len(certNode.sub) < 1 THEN <<>>
    ELSE LET tbs == SubAt(certNode.sub, 0)
         IN  IF ~tbs.constructed THEN <<>>
             ELSE <<0, VersionSlots(tbs) + SpkiPosition>>

(***************************************************************************)
(* source.js: RSAPublicKey out of the SPKI bit string                      *)
(***************************************************************************)
\* A plausible slip: the raw INTEGER values are returned as they are.
keysOfRsaNode_Unstripped(rsaNode) ==
    LET modulusNode == SubAt(rsaNode.sub, 0)
        exponentNode == SubAt(rsaNode.sub, 1)
    IN  IF modulusNode.tagClass # 0 \/ modulusNode.tagNumber # 2
        THEN Throw("Invalid RSAPublicKey: modulus is not INTEGER")
        ELSE IF exponentNode.tagClass # 0 \/ exponentNode.tagNumber # 2
        THEN Throw("Invalid RSAPublicKey: exponent is not INTEGER")
        ELSE [kind |-> "keys",
              nBytes |-> modulusNode.value,
              eBytes |-> exponentNode.value,
              nHex |-> bytesToHex(modulusNode.value),
              eHex |-> bytesToHex(exponentNode.value)]

\* source.js 143-161
keysOfRsaNode(rsaNode) ==
    LET modulusNode == SubAt(rsaNode.sub, 0)
        exponentNode == SubAt(rsaNode.sub, 1)
    IN  IF modulusNode.tagClass # 0 \/ modulusNode.tagNumber # 2
        THEN Throw("Invalid RSAPublicKey: modulus is not INTEGER")
        ELSE IF exponentNode.tagClass # 0 \/ exponentNode.tagNumber # 2
        THEN Throw("Invalid RSAPublicKey: exponent is not INTEGER")
        ELSE LET nBytes == stripIntegerPadding(modulusNode.value)
                 eBytes == stripIntegerPadding(exponentNode.value)
             IN  [kind |-> "keys",
                  nBytes |-> nBytes,
                  eBytes |-> eBytes,
                  nHex |-> bytesToHex(nBytes),
                  eHex |-> bytesToHex(eBytes)]

\* source.js 124-162
extractRsaNEFromSpki(spkiNode) ==
    IF ~spkiNode.constructed \/ Len(spkiNode.sub) < 2
    THEN Throw("Invalid SPKI: expected SEQUENCE with 2 children")
    ELSE LET bitString == SubAt(spkiNode.sub, 1).value
         IN  IF Len(bitString) < 2 THEN Throw("Invalid BIT STRING in SPKI")
             ELSE LET rsaDer == Subarray(bitString, 1, Len(bitString))
                      rsaNode == parseAsn1(rsaDer, 0)
                  IN  IF rsaNode.kind # "node" THEN rsaNode
                      ELSE IF ~rsaNode.constructed \/ Len(rsaNode.sub) < 2
                      THEN Throw("Invalid RSAPublicKey: expected SEQUENCE(modulus, exponent)")
                      ELSE keysOfRsaNode(rsaNode)

\* source.js 169-170: the pipeline on the DER bytes of the certificate.
getRsaPublicKeyNEFromDer(der) ==
    LET spki == getSubjectPublicKeyInfoNode(der)
    IN  IF spki.kind # "node" THEN spki ELSE extractRsaNEFromSpki(spki)

(***************************************************************************)
(* Inputs of the certificate decoder.  DER as the parser reads it: a tag   *)
(* byte, a short- or long-form length, the content.                        *)
(***************************************************************************)
\* All sequences over S of length at most n.
RECURSIVE SeqsUpTo(_, _)
SeqsUpTo(S, n) ==
    IF n = 0 THEN {<<>>}
    ELSE LET shorter == SeqsUpTo(S, n - 1)
         IN  shorter \cup {Append(s, x) : s \in {t \in shorter : Len(t) = n - 1}, x \in S}

EncodeLength(n) ==
    IF n < 128 THEN <<n>>
    ELSE IF n < 256 THEN <<129, n>>
    ELSE IF n < 65536 THEN <<130, n \div 256, n % 256>>
    ELSE <<131, n \div 65536, (n \div 256) % 256, n % 256>>

Tlv(tag, content) == <<tag>> \o EncodeLength(Len(content)) \o content

RECURSIVE Concat(_)
Concat(seqs) == IF seqs = <<>> THEN <<>> ELSE Head(seqs) \o Concat(Tail(seqs))

MaxRawLen == 4
MaxTbsFields == 7
MaxReadOffset == 2
RawBytes == {0, 1, 2, 48, 129, 160, 255}

\* Buffers built by hand: long-form lengths of 2 to 5 bytes, a 4-byte length
\* with the top bit set, a child whose end is its own start, a child whose end
\* is the start of its parent, a child whose end is the length byte of its
\* parent, a length byte FF followed by all of its 127 length bytes.
ReservedLengthBuffer == <<2, 255>> \o [i \in 1..126 |-> 0] \o <<1, 7>>
CraftedBuffers ==
    {ReservedLengthBuffer,
     <<2, 130, 1, 0>>,
     <<2, 131, 1, 0, 0>>,
     <<2, 132, 0, 0, 1, 0>>,
     <<2, 132, 255, 255, 255, 255>>,
     <<2, 132, 128, 0, 0, 1>>,
     <<2, 133, 1, 0, 0, 0, 0>>,
     <<2, 133, 1, 0, 0, 0, 3, 7, 7, 7>>,
     <<4, 127>>,
     <<48, 6, 2, 132, 255, 255, 255, 250>>,
     <<48, 6, 2, 132, 255, 255, 255, 248>>,
     <<48, 3, 2, 132, 255, 255, 255, 249>>,
     <<48, 3, 2, 1, 5>>,
     <<48, 3, 2, 1, 5, 9>>,
     <<48, 6, 2, 1, 5, 4, 1, 6>>,
     <<48, 8, 48, 2, 2, 0, 48, 2, 5, 0>>}

\* The content lengths of the long-form round trip (spec 8, P2).
RoundTripLengths == {127, 128, 255, 256, 65535, 65536}
RoundTripSeeds == {0, 101}
RoundTripContent(len, seed) == [i \in 1..len |-> (i + seed) % 256]

\* A certificate as source.js 97-162 walks it.  fault names the one place
\* where the fixture departs from the schema.
CertFaults ==
    {"none", "rootPrimitive", "rootEmpty", "tbsPrimitive", "spkiPrimitive",
     "spkiOneChild", "bitStringEmpty", "bitStringOneByte", "rsaPrimitive",
     "rsaOneChild", "modulusNotInteger", "exponentNotInteger", "rsaChildLoops",
     "rsaChildRecurses"}
\* 0: no leading field; else the tag of the leading field: [0] constructed,
\* [1] constructed, application 0, [0] primitive.
LeadTags == {0, 160, 161, 96, 128}
\* The modulus of a 2048-bit key as DER holds it: the sign byte 00, then 256
\* bytes of which the first has its top bit set.
KeyBytes == 256
Modulus2048 == <<0>> \o [i \in 1..KeyBytes |-> (i * 7 + 193) % 256]
Moduli == {<<0, 255>>, <<0, 0>>, <<127>>, <<0, 0, 1>>, <<0, 128, 1>>, <<>>, Modulus2048}
Exponents == {<<1, 0, 1>>, <<3>>}

AlgorithmId == Tlv(48, Tlv(6, <<42>>) \o Tlv(5, <<>>))

RsaKeyOf(d) ==
    IF d.fault = "rsaChildLoops" THEN <<48, 6, 2, 132, 255, 255, 255, 250>>
    ELSE IF d.fault = "rsaChildRecurses" THEN <<48, 6, 2, 132, 255, 255, 255, 248>>
    ELSE Tlv(IF d.fault = "rsaPrimitive" THEN 4 ELSE 48,
             Tlv(IF d.fault = "modulusNotInteger" THEN 4 ELSE 2, d.modulus)
             \o (IF d.fault = "rsaOneChild" THEN <<>>
                 ELSE Tlv(IF d.fault = "exponentNotInteger" THEN 130 ELSE 2, d.exponent)))

BitStringOf(d) ==
    IF d.fault = "bitStringEmpty" THEN Tlv(3, <<>>)
    ELSE IF d.fault = "bitStringOneByte" THEN Tlv(3, <<0>>)
    ELSE Tlv(3, <<0>> \o RsaKeyOf(d))

SpkiOf(d) ==
    Tlv(IF d.fault = "spkiPrimitive" THEN 4 ELSE 48,
        AlgorithmId \o (IF d.fault = "spkiOneChild" THEN <<>> ELSE BitStringOf(d)))

\* serialNumber, signature, issuer, validity, subject, subjectPublicKeyInfo,
\* then extensions.
TbsField(i, d) ==
    IF i = 1 THEN Tlv(2, <<1>>)
    ELSE IF i = 2 THEN AlgorithmId
    ELSE IF i = 6 THEN SpkiOf(d)
    ELSE IF i > 6 THEN Tlv(163, Tlv(48, <<>>))
    ELSE Tlv(48, <<>>)

LeadOf(d) ==
    IF d.lead = 0 THEN <<>>
    ELSE IF d.lead = 128 THEN Tlv(128, <<2>>)
    ELSE Tlv(d.lead, Tlv(2, <<2>>))

TbsOf(d) ==
    Tlv(IF d.fault = "tbsPrimitive" THEN 4 ELSE 48,
        LeadOf(d) \o Concat([i \in 1..d.fields |-> TbsField(i, d)]))

CertOf(d) ==
    IF d.fault = "rootEmpty" THEN Tlv(48, <<>>)
    ELSE Tlv(IF d.fault = "rootPrimitive" THEN 4 ELSE 48,
             TbsOf(d) \o AlgorithmId \o Tlv(3, <<0, 1>>))

CertInputs ==
    [kind : {"cert"}, lead : LeadTags, fields : 0..MaxTbsFields, fault : CertFaults,
     modulus : Moduli, exponent : Exponents]

\* SEQUENCEs nested depth deep: 30 xx 30 xx ... 30 00.
MaxNesting == 6
RECURSIVE Nested(_)
Nested(depth) == IF depth = 0 THEN <<>> ELSE Tlv(48, Nested(depth - 1))

AsnInputs ==
    {[kind |-> "raw", bytes |-> b] : b \in SeqsUpTo(RawBytes, MaxRawLen) \cup CraftedBuffers}
    \cup [kind : {"roundtrip"}, len : RoundTripLengths, seed : RoundTripSeeds]
    \cup [kind : {"nested"}, depth : 1..(MaxNesting + 1)]
    \cup CertInputs

BytesOf(d) ==
    IF d.kind = "raw" THEN d.bytes
    ELSE IF d.kind = "nested" THEN Nested(d.depth)
    ELSE IF d.kind = "roundtrip" THEN Tlv(4, RoundTripContent(d.len, d.seed))
    ELSE CertOf(d)

VaaIdle ==
    /\ vaaResponse = [kind |-> "network"]
    /\ vaaOut = [kind |-> "idle"]

AsnInit ==
    /\ asnInput \in AsnInputs
    /\ asnBytes = BytesOf(asnInput)
    /\ asnOut = [kind |-> "pending"]

AsnIdle ==
    /\ asnInput = [kind |-> "idle"]
    /\ asnBytes = <<>>
    /\ asnOut = [kind |-> "idle"]

\* source.js 30-41
ReadLength ==
    /\ asnOut.kind = "pending"
    /\ \E offset \in 0..Min(Len(asnBytes), MaxReadOffset) :
          asnOut' = [kind |-> "readLength", offset |-> offset,
                     result |-> readLength(asnBytes, offset)]
    /\ UNCHANGED <<asnInput, asnBytes>>
    /\ UNCHANGED asnFrame

\* source.js 43-77
ParseAsn1 ==
    /\ asnOut.kind = "pending"
    /\ asnOut' = [kind |-> "parseAsn1", result |-> parseAsn1(asnBytes, 0)]
    /\ UNCHANGED <<asnInput, asnBytes>>
    /\ UNCHANGED asnFrame

\* source.js 97-119
GetSubjectPublicKeyInfoNode ==
    /\ asnOut.kind = "pending"
    /\ LET certNode == parseAsn1(asnBytes, 0)
       IN  asnOut' = [kind |-> "getSubjectPublicKeyInfoNode",
                      certNode |-> certNode,
                      reads |-> IF certNode.kind = "node" THEN subIndexesRead(certNode)
                                ELSE <<>>,
                      result |-> getSubjectPublicKeyInfoNode(asnBytes)]
    /\ UNCHANGED <<asnInput, asnBytes>>
    /\ UNCHANGED asnFrame

\* source.js 167-171, from the DER bytes on
GetRsaPublicKeyNE ==
    /\ asnOut.kind = "pending"
    /\ asnOut' = [kind |-> "getRsaPublicKeyNE",
                  spki |-> getSubjectPublicKeyInfoNode(asnBytes),
                  result |-> getRsaPublicKeyNEFromDer(asnBytes)]
    /\ UNCHANGED <<asnInput, asnBytes>>
    /\ UNCHANGED asnFrame

\* source.js 82-86, on the buffer as the raw value of an INTEGER
StripIntegerPadding ==
    /\ asnOut.kind = "pending"
    /\ asnOut' = [kind |-> "stripIntegerPadding", result |-> stripIntegerPadding(asnBytes)]
    /\ UNCHANGED <<asnInput, asnBytes>>
    /\ UNCHANGED asnFrame

AsnNext ==
    \/ ReadLength
    \/ ParseAsn1
    \/ GetSubjectPublicKeyInfoNode
    \/ GetRsaPublicKeyNE
    \/ StripIntegerPadding

InitAsn1 == AsnInit /\ VaaIdle /\ WatchIdle /\ CallIdle /\ ConIdle /\ AdapterIdle /\ PostIdle /\ BotIdle /\ EmitterIdle

SpecAsn1 == InitAsn1 /\ [][AsnNext]_vars

(***************************************************************************)
(* Claims about the certificate decoder                                    *)
(***************************************************************************)
Parsed == asnOut.kind = "parseAsn1" /\ asnOut.result.kind = "node"

\* Every constructed node of the tree ends where its last child ends (and has
\* length 0 when it has no child).
RECURSIVE ChildrenEndAtParent(_)
ChildrenEndAtParent(node) ==
    /\ node.constructed =>
          IF node.sub = <<>> THEN node.length = 0
          ELSE node.sub[Len(node.sub)].end = node.end
    /\ \A i \in 1..Len(node.sub) : ChildrenEndAtParent(node.sub[i])

\* C4: in every constructed node that decode returns, the end offset of the
\* last child equals the end offset of the parent; an input whose children run
\* past (or stop before) the parent's declared end yields no node.
C4_ChildrenCoverParentExactly == Parsed => ChildrenEndAtParent(asnOut.result)

\* No node of the tree ends past the end of a buffer of length len.
RECURSIVE EndsWithin(_, _)
EndsWithin(node, len) ==
    /\ node.end <= len
    /\ \A i \in 1..Len(node.sub) : EndsWithin(node.sub[i], len)

\* C5: decode never returns a node, at any nesting level, whose end offset
\* exceeds the buffer length; such an input is rejected.
C5_NoNodeEndsPastBuffer == Parsed => EndsWithin(asnOut.result, Len(asnBytes))

\* The base-256 digit of weight 256^j of a non-negative length below 2^31.
Digit256(length, j) ==
    IF j = 0 THEN length % 256
    ELSE IF j = 1 THEN (length \div 256) % 256
    ELSE IF j = 2 THEN (length \div 65536) % 256
    ELSE IF j = 3 THEN (length \div 16777216) % 256
    ELSE 0

\* C6: a length byte L < 0x80 decodes to length L and one byte consumed; for
\* L >= 0x80 with N = L & 0x7f, the decoded length is the non-negative
\* big-endian unsigned integer formed by the next N bytes and 1 + N bytes are
\* consumed.  (Stated for the offsets at which all N bytes are in the buffer.)
C6_LengthIsUnsignedBigEndian ==
    (asnOut.kind = "readLength" /\ asnOut.offset < Len(asnBytes)) =>
        LET L == asnBytes[asnOut.offset + 1]
            N == L % 128
            r == asnOut.result
        IN  IF L < 128 THEN r.length = L /\ r.lengthBytes = 1
            ELSE (asnOut.offset + N < Len(asnBytes)) =>
                    /\ r.lengthBytes = 1 + N
                    /\ r.length >= 0
                    /\ \A k \in 1..N :
                          asnBytes[asnOut.offset + 1 + k] = Digit256(r.length, N - k)

\* C7: for the content lengths 127, 128, 255, 256, 65535 and 65536, decoding
\* the encoding of a primitive value (short form for 127, long form otherwise)
\* gives a node whose length is the content length, whose value is the
\* content and whose end offset is the length of the whole encoding.
C7_LongFormRoundTrip ==
    (asnInput.kind = "roundtrip" /\ asnOut.kind = "parseAsn1") =>
        /\ (asnBytes[2] < 128) <=> (asnInput.len = 127)
        /\ asnOut.result.kind = "node"
        /\ asnOut.result.length = asnInput.len
        /\ asnOut.result.value = RoundTripContent(asnInput.len, asnInput.seed)
        /\ asnOut.result.end = Len(asnBytes)
        /\ asnOut.result.sub = <<>>

\* C7 witness: a value of 65536 bytes, whose length takes three length bytes,
\* has been decoded.
C7_Witness ==
    /\ asnInput.kind = "roundtrip"
    /\ asnInput.len = 65536
    /\ asnOut.kind = "parseAsn1"
    /\ asnBytes[2] = 131
    /\ asnOut.result.length = 65536

\* The walk has run on a certificate whose root and first child are constructed.
Walked ==
    /\ asnOut.kind = "getSubjectPublicKeyInfoNode"
    /\ asnOut.certNode.kind = "node"
WalkedTbs ==
    /\ Walked
    /\ asnOut.certNode.constructed
    /\ Len(asnOut.certNode.sub) >= 1
    /\ asnOut.certNode.sub[1].constructed
TbsChildren == asnOut.certNode.sub[1].sub
HasLeadingField ==
    /\ Len(TbsChildren) >= 1
    /\ TbsChildren[1].tagClass = 2
    /\ TbsChildren[1].tagNumber = 0

\* A node with every offset moved by d.
RECURSIVE Shifted(_, _)
Shifted(node, d) ==
    [node EXCEPT !.start = @ + d, !.end = @ + d,
                 !.sub = [i \in 1..Len(node.sub) |-> Shifted(node.sub[i], d)]]

\* C8: with children c0, c1, ... of the to-be-signed node, the walk returns c6
\* when c0 is context-specific with tag number 0 and c5 otherwise; a
\* certificate with the leading [0] field and the same certificate without it
\* give the same public-key-info node (the same tag, length, value and
\* children, at offsets moved by the length of the field).
C8_SpkiAtPositionFive ==
    WalkedTbs =>
        /\ (HasLeadingField /\ Len(TbsChildren) >= 7) => asnOut.result = TbsChildren[7]
        /\ (~HasLeadingField /\ Len(TbsChildren) >= 6) => asnOut.result = TbsChildren[6]
        /\ (asnInput.kind = "cert" /\ asnInput.lead = 160 /\ asnOut.result.kind = "node") =>
              LET without == getSubjectPublicKeyInfoNode(CertOf([asnInput EXCEPT !.lead = 0]))
              IN  /\ without.kind = "node"
                  /\ asnOut.result = Shifted(without, asnOut.result.start - without.start)

\* C8 witness: a certificate with the leading [0] field and at least seven
\* children, for which the walk returned the seventh child, a SEQUENCE.
C8_Witness ==
    /\ WalkedTbs
    /\ HasLeadingField
    /\ Len(TbsChildren) >= 7
    /\ asnInput.kind = "cert"
    /\ asnInput.lead = 160
    /\ asnInput.fault = "none"
    /\ asnOut.result.kind = "node"
    /\ asnOut.result.tag = 48
    /\ asnOut.result.start > TbsChildren[6].start

\* The cases in which C9 requires the walk to fail.
SchemaMismatch ==
    \/ ~asnOut.certNode.constructed
    \/ Len(asnOut.certNode.sub) < 1
    \/ ~asnOut.certNode.sub[1].constructed
    \/ Len(TbsChildren) < (IF HasLeadingField THEN 7 ELSE 6)

Extracted == asnOut.kind = "getRsaPublicKeyNE" /\ asnOut.spki.kind = "node"
BitStringValue == asnOut.spki.sub[2].value
NestedKey == parseAsn1(Subarray(BitStringValue, 1, Len(BitStringValue)), 0)

\* The cases in which C10 requires the extraction to fail.
InvalidPublicKey ==
    \/ ~asnOut.spki.constructed
    \/ Len(asnOut.spki.sub) < 2
    \/ Len(BitStringValue) < 2
    \/ NestedKey.kind # "node"
    \/ ~NestedKey.constructed
    \/ Len(NestedKey.sub) < 2
    \/ \E i \in 1..2 : NestedKey.sub[i].tagClass # 0 \/ NestedKey.sub[i].tagNumber # 2

\* C10: the extraction either returns the complete result (modulus bytes,
\* exponent bytes and both hexadecimal forms) or fails with an error; it fails
\* whenever the node is not constructed or has fewer than 2 children, the bit
\* string has fewer than 2 bytes, the nested decode fails or gives no
\* constructed node with 2 children, or one of the two is not an INTEGER.
C10_CompleteResultOrError ==
    Extracted =>
        /\ asnOut.result.kind \in {"keys", "throw"}
        /\ asnOut.result.kind = "keys" =>
              DOMAIN asnOut.result = {"kind", "nBytes", "eBytes", "nHex", "eHex"}
        /\ InvalidPublicKey => asnOut.result.kind = "throw"

\* stripIntegerPadding has run on the buffer.
Stripped == asnOut.kind = "stripIntegerPadding"
\* The extraction has returned the modulus and the exponent.
KeysReturned == Extracted /\ asnOut.result.kind = "keys"

Zeros(n) == [k \in 1..n |-> 0]

\* Two big-endian byte sequences represent the same unsigned number: they are
\* equal once the shorter one is extended with zero bytes on the left.
SameNumber(a, b) ==
    LET n == Max(Len(a), Len(b))
    IN  Zeros(n - Len(a)) \o a = Zeros(n - Len(b)) \o b

\* C11: padding removal never yields an empty sequence for a non-empty integer
\* value and never changes the unsigned big-endian number of the bytes; 00 FF
\* yields FF, 00 00 yields 00, a single-byte value is returned unchanged.
C11_PaddingKeepsValue ==
    /\ Stripped =>
          /\ asnBytes # <<>> => asnOut.result # <<>>
          /\ SameNumber(asnOut.result, asnBytes)
          /\ asnBytes = <<0, 255>> => asnOut.result = <<255>>
          /\ asnBytes = <<0, 0>> => asnOut.result = <<0>>
          /\ Len(asnBytes) = 1 => asnOut.result = asnBytes
    /\ KeysReturned =>
          /\ NestedKey.sub[1].value # <<>> => asnOut.result.nBytes # <<>>
          /\ SameNumber(asnOut.result.nBytes, NestedKey.sub[1].value)
          /\ NestedKey.sub[2].value # <<>> => asnOut.result.eBytes # <<>>
          /\ SameNumber(asnOut.result.eBytes, NestedKey.sub[2].value)

\* C11 witness: the value 00 00 has been stripped to the single byte 00.
C11_Witness ==
    /\ Stripped
    /\ asnBytes = <<0, 0>>
    /\ asnOut.result = <<0>>

\* r is v or v without its first byte.
AtMostOneStripped(v, r) ==
    /\ Len(r) >= Len(v) - 1
    /\ r = v \/ r = Subarray(v, 1, Len(v))

\* C12 (as stated): padding removal strips at most one leading zero byte: for
\* every integer value v the result has length >= length(v) - 1 and is v or v
\* without its first byte.
C12_StripsAtMostOne ==
    /\ Stripped => AtMostOneStripped(asnBytes, asnOut.result)
    /\ KeysReturned =>
          /\ AtMostOneStripped(NestedKey.sub[1].value, asnOut.result.nBytes)
          /\ AtMostOneStripped(NestedKey.sub[2].value, asnOut.result.eBytes)

\* r is v without its k leading zero bytes, where k is as large as it can be
\* with one byte of a non-empty v left over.
EveryPaddingStripped(v, r) ==
    LET k == Len(v) - Len(r)
    IN  /\ k >= 0
        /\ r = SubSeq(v, k + 1, Len(v))
        /\ \A j \in 1..k : v[j] = 0
        /\ v # <<>> => Len(r) >= 1
        /\ Len(r) > 1 => r[1] # 0
        /\ (Len(v) <= 2 \/ v[1] # 0 \/ v[2] # 0) => AtMostOneStripped(v, r)

\* C12 (amended): padding removal strips every leading zero byte except the
\* last byte of the value: the result is a suffix of v, only zero bytes are
\* removed, and a result longer than one byte starts with a non-zero byte; it
\* is v or v without its first byte when v has at most two bytes or a
\* non-zero byte among its first two.
C12_StripsEveryPaddingByte ==
    /\ Stripped => EveryPaddingStripped(asnBytes, asnOut.result)
    /\ KeysReturned =>
          /\ EveryPaddingStripped(NestedKey.sub[1].value, asnOut.result.nBytes)
          /\ EveryPaddingStripped(NestedKey.sub[2].value, asnOut.result.eBytes)

\* C12 witness: the modulus 00 00 01 of a certificate has come back as 01,
\* two bytes shorter.
C12_Witness ==
    /\ KeysReturned
    /\ NestedKey.sub[1].value = <<0, 0, 1>>
    /\ asnOut.result.nBytes = <<1>>

\* A minimal-length big-endian sequence: the single byte 00 for the value
\* zero, else a first byte that is not zero.
MinimalLength(s) ==
    IF \A j \in 1..Len(s) : s[j] = 0 THEN s = <<0>> ELSE s[1] # 0

\* C13: the modulus and the exponent that the extraction returns are
\* minimal-length big-endian sequences, for every input integer value: the
\* first byte is non-zero unless the value is zero, and then the sequence is
\* the single byte 00.
C13_KeysAreMinimalLength ==
    KeysReturned =>
        /\ MinimalLength(asnOut.result.nBytes)
        /\ MinimalLength(asnOut.result.eBytes)

\* The content of a DER INTEGER that holds a non-negative number: at least one
\* byte, the top bit of the first byte clear, and a leading 00 only before a
\* byte with its top bit set.
WellFormedInteger(v) ==
    /\ Len(v) >= 1
    /\ v[1] < 128
    /\ (Len(v) > 1 /\ v[1] = 0) => v[2] >= 128

WithoutSignPadding(v) == IF Len(v) > 1 /\ v[1] = 0 THEN Tail(v) ELSE v

\* A certificate that follows the schema, with or without the version field,
\* whose bit string holds SEQUENCE(INTEGER M, INTEGER E).
WellFormedCertificate ==
    /\ asnInput.kind = "cert"
    /\ asnInput.fault = "none"
    /\ asnInput.lead \in {0, 160}
    /\ asnInput.fields >= 6
    /\ WellFormedInteger(asnInput.modulus)
    /\ WellFormedInteger(asnInput.exponent)

\* C14: end to end, for every well-formed certificate (with or without the
\* leading version field) whose bit string holds two integers M and E, the
\* pipeline returns the bytes of M and of E without sign padding; for the
\* 2048-bit key whose modulus is encoded as 00 followed by 256 bytes it
\* returns exactly those 256 bytes, and the exponent 01 00 01 as 01 00 01.
C14_EndToEndKey ==
    (asnOut.kind = "getRsaPublicKeyNE" /\ WellFormedCertificate) =>
        /\ asnOut.result.kind = "keys"
        /\ asnOut.result.nBytes = WithoutSignPadding(asnInput.modulus)
        /\ asnOut.result.eBytes = WithoutSignPadding(asnInput.exponent)
        /\ asnOut.result.nHex = bytesToHex(WithoutSignPadding(asnInput.modulus))
        /\ asnInput.modulus = Modulus2048 =>
              /\ Len(asnOut.result.nBytes) = KeyBytes
              /\ \A i \in 1..KeyBytes : asnOut.result.nBytes[i] = Modulus2048[i + 1]
        /\ asnInput.exponent = <<1, 0, 1>> => asnOut.result.eBytes = <<1, 0, 1>>

\* C14 witness: the pipeline has run on a certificate with the version field
\* and the 2048-bit key, and has returned 256 modulus bytes and 01 00 01.
C14_Witness ==
    /\ asnOut.kind = "getRsaPublicKeyNE"
    /\ WellFormedCertificate
    /\ asnInput.lead = 160
    /\ asnInput.modulus = Modulus2048
    /\ asnInput.exponent = <<1, 0, 1>>
    /\ asnOut.result.kind = "keys"
    /\ Len(asnOut.result.nBytes) = KeyBytes
    /\ asnOut.result.nBytes[1] >= 128
    /\ asnOut.result.eBytes = <<1, 0, 1>>

\* C15: decode terminates on every finite input buffer: each child decode
\* moves the scan offset strictly forward, so that the child loop neither
\* runs for ever nor recurses without bound, long-form lengths of 4 or more
\* bytes included; that is, every call returns a node.
C15_DecodeTerminates ==
    asnOut.kind = "parseAsn1" => asnOut.result.kind = "node"

\* The tag byte and the length octets of every node of the tree lie inside a
\* buffer of length len.
RECURSIVE HeadersInside(_, _)
HeadersInside(node, len) ==
    /\ node.start < len
    /\ node.tag # Undefined
    /\ node.end - node.length <= len
    /\ \A i \in 1..Len(node.sub) : HeadersInside(node.sub[i], len)

\* C17: decode fails as malformed when the starting offset is at or past the
\* end of the buffer (the empty buffer included) or when the tag or length
\* bytes run past the end; it never produces a node from bytes that do not
\* exist.
C17_NoNodeFromMissingBytes ==
    asnOut.kind = "parseAsn1" =>
        /\ asnBytes = <<>> => asnOut.result.kind # "node"
        /\ asnOut.result.kind = "node" => HeadersInside(asnOut.result, Len(asnBytes))

\* In every node of the tree that has a tag byte, the byte is 64 * class +
\* 32 * constructed + number; a node that is not constructed has no children.
RECURSIVE TagFieldsMatch(_)
TagFieldsMatch(node) ==
    /\ node.tag # Undefined =>
          /\ node.tagClass \in 0..3
          /\ node.tagNumber \in 0..31
          /\ node.tag = 64 * node.tagClass + (IF node.constructed THEN 32 ELSE 0)
                        + node.tagNumber
    /\ ~node.constructed => node.sub = <<>>
    /\ (node.constructed /\ node.length > 0) => node.sub # <<>>
    /\ \A i \in 1..Len(node.sub) : TagFieldsMatch(node.sub[i])

\* C18: in every node, the tag class is the top two bits of the tag byte, the
\* node is constructed exactly when bit 0x20 is set, the tag number is the low
\* five bits; children are decoded only when the node is constructed, and are
\* empty otherwise.
C18_TagFields ==
    /\ Parsed => TagFieldsMatch(asnOut.result)
    /\ (Parsed /\ asnBytes # <<>>) =>
          /\ asnOut.result.tagClass = asnBytes[1] \div 64
          /\ asnOut.result.constructed = ((asnBytes[1] \div 32) % 2 = 1)
          /\ asnOut.result.tagNumber = asnBytes[1] % 32

\* C18 witness: a certificate has been decoded whose to-be-signed node
\* (universal, constructed, number 16) starts with the version field
\* (context-specific, constructed, number 0) holding a primitive INTEGER.
C18_Witness ==
    /\ Parsed
    /\ asnInput.kind = "cert"
    /\ asnInput.fault = "none"
    /\ asnInput.lead = 160
    /\ LET tbs == asnOut.result.sub[1]
           version == tbs.sub[1]
       IN  /\ tbs.tag = 48 /\ tbs.tagClass = 0 /\ tbs.constructed /\ tbs.tagNumber = 16
           /\ version.tag = 160 /\ version.tagClass = 2 /\ version.constructed
           /\ version.tagNumber = 0
           /\ Len(version.sub) = 1
           /\ version.sub[1].tag = 2 /\ ~version.sub[1].constructed
           /\ version.sub[1].sub = <<>>

\* In every node of the tree the first child starts at the first byte of the
\* node's value, every child ends after its start, and every other child
\* starts where the one before it ends.
RECURSIVE ChildrenContiguous(_)
ChildrenContiguous(node) ==
    /\ node.sub # <<>> => node.sub[1].start = node.end - node.length
    /\ \A i \in 1..Len(node.sub) : node.sub[i].end > node.sub[i].start
    /\ \A i \in 2..Len(node.sub) : node.sub[i].start = node.sub[i - 1].end
    /\ \A i \in 1..Len(node.sub) : ChildrenContiguous(node.sub[i])

\* C19: in every node that decode returns the children are contiguous and do
\* not overlap: the first child starts at the first byte of the parent's
\* value, every child's end offset is greater than its start offset, and each
\* following child starts exactly where the one before it ends.
C19_ChildrenContiguous == Parsed => ChildrenContiguous(asnOut.result)

(***************************************************************************)
(* Inputs of fetchVAA: signed VAAs laid out as the comment of relay.ts     *)
(* 75-76 describes, every prefix of them (a VAA cut short), and the error  *)
(* answers of the endpoint.                                                *)
(***************************************************************************)
MaxSigCount == 2
MaxPayloadLen == 2
FillBytes == {0, 255}
PayloadBytes == {65, 195, 169, 255}

\* version(1) guardianSetIndex(4) signatureCount(1) signatures(66 each)
\* body header(51) payload
FullVaa(n, f, p) ==
    <<f, f, f, f, f, n>> \o [i \in 1..(SignatureLen * n + BodyHeaderLen) |-> f] \o p

VaaBuffers ==
    UNION {{SubSeq(FullVaa(n, f, p), 1, k) : k \in 0..Len(FullVaa(n, f, p))} :
           n \in 0..MaxSigCount, f \in FillBytes, p \in SeqsUpTo(PayloadBytes, MaxPayloadLen)}

VaaResponses ==
    {[kind |-> "ok", vaaBytes |-> b] : b \in VaaBuffers}
    \cup {[kind |-> "http", status |-> st] : st \in {404, 500}}
    \cup {[kind |-> "network"]}

VaaInit ==
    /\ vaaResponse \in VaaResponses
    /\ vaaOut = [kind |-> "pending"]

\* relay.ts 59-90
FetchVAA ==
    /\ vaaOut.kind = "pending"
    /\ vaaOut' = fetchVAA(vaaResponse)
    /\ UNCHANGED vaaResponse
    /\ UNCHANGED vaaFrame


VaaNext == FetchVAA

InitVaa == VaaInit /\ AsnIdle /\ WatchIdle /\ CallIdle /\ ConIdle /\ AdapterIdle /\ PostIdle /\ BotIdle /\ EmitterIdle

SpecVaa == InitVaa /\ [][VaaNext]_vars

(***************************************************************************)
(* Claims about payload extraction                                         *)
(***************************************************************************)
\* The buffer fetchVAA worked on, once it has returned a value.
VaaDecoded == vaaOut.kind = "value"
VaaLen == Len(vaaResponse.vaaBytes)
\* 6 + 66*n + 51 with n the byte at index 5, as the claims state it.
ClaimedOffset == 6 + 66 * vaaResponse.vaaBytes[6] + 51
ClaimedPayloadBytes == SubSeq(vaaResponse.vaaBytes, ClaimedOffset + 1, VaaLen)

C2_TruncatedFails ==
    (vaaOut.kind \notin {"pending", "idle"} /\ vaaResponse.kind = "ok"
     /\ VaaLen >= 6 /\ VaaLen < ClaimedOffset)
        => (vaaOut.kind = "throw" /\ vaaOut.error = "TruncatedMessage")

\* C3: a buffer shorter than 6 bytes makes payload extraction fail; no payload
\* is returned and the signature count is not read.
C3_ShortHeaderFails ==
    (vaaOut.kind \notin {"pending", "idle"} /\ vaaResponse.kind = "ok" /\ VaaLen < 6)
        => vaaOut.kind = "throw"

\* No path from the node down to a leaf holds more than depth nodes.
RECURSIVE WithinDepth(_, _)
WithinDepth(node, depth) ==
    /\ depth >= 1
    /\ \A i \in 1..Len(node.sub) : WithinDepth(node.sub[i], depth - 1)

\* C22: decode enforces a maximum nesting depth: an input whose constructed
\* nodes are nested deeper than the maximum (here MaxNesting) is rejected as
\* malformed instead of being recursed into, so that no returned tree is
\* deeper than the maximum.
C22_NestingDepthLimited == Parsed => WithinDepth(asnOut.result, MaxNesting)

\* C23: decode rejects, as a malformed encoding, a long-form length byte whose
\* low 7 bits equal 0x7f (the length byte FF).
C23_ReservedLengthRejected ==
    /\ (asnOut.kind = "parseAsn1" /\ Len(asnBytes) >= 2 /\ asnBytes[2] = 255)
          => asnOut.result.kind = "throw"
    /\ (asnOut.kind = "readLength" /\ asnOut.offset < Len(asnBytes)
        /\ asnBytes[asnOut.offset + 1] = 255)
          => "kind" \in DOMAIN asnOut.result /\ asnOut.result.kind = "throw"

\* Two buffers of equal length that have a byte 5, agree on it and agree on
\* every byte from the payload offset 6 + 66*n + 51 onward.
SameStructure(a, b) ==
    /\ Len(a) = Len(b)
    /\ Len(a) >= 6
    /\ a[6] = b[6]
    /\ \A i \in (6 + 66 * a[6] + 51 + 1)..Len(a) : a[i] = b[i]

\* C21: payload extraction is a structural offset calculation only: two
\* buffers of equal length that agree on byte 5 and on every byte from the
\* payload offset onward give identical payloads, whatever the version, the
\* guardian-set index, the signature records and the body header contain.
C21_PayloadIgnoresHeader ==
    VaaDecoded =>
        \A b \in VaaBuffers :
            SameStructure(vaaResponse.vaaBytes, b)
                => fetchVAA([kind |-> "ok", vaaBytes |-> b]).payload = vaaOut.payload

\* C21 witness: a VAA with one signature record, filled with FF up to the
\* payload 41, has been decoded, and the inputs hold a different buffer (filled
\* with 00) of the same structure.
C21_Witness ==
    /\ VaaDecoded
    /\ VaaLen = 124
    /\ vaaResponse.vaaBytes[1] = 255
    /\ vaaResponse.vaaBytes[6] = 1
    /\ vaaOut.payload = <<65>>
    /\ \E b \in VaaBuffers :
          /\ SameStructure(vaaResponse.vaaBytes, b)
          /\ b # vaaResponse.vaaBytes
          /\ b[1] = 0

(***************************************************************************)
(* relayer/src/relay.ts: relayVAA and the watcher loop.  Wormholescan      *)
(* lists the sequences 1..emitted of the emitter, the newest first, and    *)
(* serves the signed VAA of the sequences in available.                    *)
(***************************************************************************)
MaxSequence == 6
PageSize == 5

\* relay.ts 133-152: the NEAR transaction goes through or functionCall throws.
submitVaaToNear(vaaBytes, near) ==
    IF near = "ok" THEN [kind |-> "txHash"] ELSE [kind |-> "throw", error |-> "near"]

\* relay.ts 188-209
relayVAA(response, near) ==
    LET vaa == fetchVAA(response)
    IN  IF vaa.kind = "throw" THEN vaa
        ELSE IF vaa.kind = "null" THEN Throw("VAA not available yet")
        ELSE submitVaaToNear(vaa.vaaBytes, near)

\* A plausible slip: the sequences seen before are returned when the request
\* fails.
getRecentVAAs_IgnoresError(listing, limit) ==
    [k \in 1..Min(emitted, limit) |-> emitted + 1 - k]

\* relay.ts 95-113 with pageSize = limit: the most recent sequences, newest
\* first; [] when the request fails.
getRecentVAAs(listing, limit) ==
    IF listing = "error" THEN <<>>
    ELSE [k \in 1..Min(emitted, limit) |-> emitted + 1 - k]

\* Array.prototype.reverse
Reverse(s) == [k \in 1..Len(s) |-> s[Len(s) + 1 - k]]

\* What GET /v1/signed_vaa/.../sequence can answer (relay.ts 70).
SignedVaa(sequence) == FullVaa(0, 0, <<48 + sequence>>)
VaaAnswers(sequence) ==
    (IF sequence \in available
     THEN {[kind |-> "ok", vaaBytes |-> SignedVaa(sequence)]}
     ELSE {[kind |-> "http", status |-> 404]})
    \cup {[kind |-> "http", status |-> 500]}

\* A plausible slip: >= in place of >.
isNewSequence_OrEqual(sequence, last) == sequence >= last

\* relay.ts 231: BigInt(vaa.sequence) > BigInt(lastSequence)
isNewSequence(sequence, last) == sequence > last

WatchInit ==
    /\ watchPc = "poll"
    /\ vaas = <<>>
    /\ lastSequence = 0
    /\ emitted = 0
    /\ available = {}
    /\ awaiting = {}
    /\ submitted = [s \in 1..MaxSequence |-> 0]
    /\ watchEvent = [kind |-> "start"]

\* The emitter publishes the next message.
Emit ==
    /\ emitted < MaxSequence
    /\ emitted' = emitted + 1
    /\ UNCHANGED <<watchPc, vaas, lastSequence, available, awaiting, submitted, watchEvent>>
    /\ UNCHANGED watchFrame

\* The guardians finish signing a published message.
Sign ==
    /\ \E s \in (1..emitted) \ available : available' = available \cup {s}
    /\ UNCHANGED <<watchPc, vaas, lastSequence, emitted, awaiting, submitted, watchEvent>>
    /\ UNCHANGED watchFrame

\* relay.ts 224-230
Poll ==
    /\ watchPc = "poll"
    /\ \E listing \in {"ok", "error"} :
          /\ vaas' = Reverse(getRecentVAAs(listing, PageSize))
          /\ watchEvent' = [kind |-> "poll", listing |-> listing]
    /\ watchPc' = "relay"
    /\ UNCHANGED <<lastSequence, emitted, available, awaiting, submitted>>
    /\ UNCHANGED watchFrame

\* relay.ts 231, the condition is false
Skip ==
    /\ watchPc = "relay"
    /\ vaas # <<>>
    /\ ~isNewSequence(Head(vaas), lastSequence)
    /\ vaas' = Tail(vaas)
    /\ watchEvent' = [kind |-> "skip", sequence |-> Head(vaas)]
    /\ UNCHANGED <<watchPc, lastSequence, emitted, available, awaiting, submitted>>
    /\ UNCHANGED watchFrame

\* relay.ts 231-239, the condition is true
Relay ==
    /\ watchPc = "relay"
    /\ vaas # <<>>
    /\ isNewSequence(Head(vaas), lastSequence)
    /\ \E response \in VaaAnswers(Head(vaas)), near \in {"ok", "error"} :
          LET sequence == Head(vaas)
              result == relayVAA(response, near)
          IN  /\ watchEvent' = [kind |-> "relay", sequence |-> sequence,
                                 response |-> response,
                                 fetched |-> fetchVAA(response).kind,
                                 result |-> result]
              /\ IF result.kind = "txHash"
                 THEN /\ lastSequence' = sequence
                      /\ submitted' = [submitted EXCEPT ![sequence] = @ + 1]
                      /\ awaiting' = awaiting \ {sequence}
                 ELSE /\ UNCHANGED <<lastSequence, submitted>>
                      /\ awaiting' = IF response.kind = "http" /\ response.status = 404
                                     THEN awaiting \cup {sequence}
                                     ELSE awaiting \ {sequence}
    /\ vaas' = Tail(vaas)
    /\ UNCHANGED <<watchPc, emitted, available>>
    /\ UNCHANGED watchFrame

\* relay.ts 247: the for loop is over, the next poll follows
Sleep ==
    /\ watchPc = "relay"
    /\ vaas = <<>>
    /\ watchPc' = "poll"
    /\ watchEvent' = [kind |-> "sleep"]
    /\ UNCHANGED <<vaas, lastSequence, emitted, available, awaiting, submitted>>
    /\ UNCHANGED watchFrame

WatchNext == Emit \/ Sign \/ Poll \/ Skip \/ Relay \/ Sleep

InitWatch == WatchInit /\ VaaIdle /\ AsnIdle /\ CallIdle /\ ConIdle /\ AdapterIdle /\ PostIdle /\ BotIdle /\ EmitterIdle

SpecWatch == InitWatch /\ [][WatchNext]_vars

(***************************************************************************)
(* Claims about the watcher                                                *)
(***************************************************************************)
\* C16: a detected sequence whose relay attempt failed because its
\* attestation was not yet available is never permanently discarded, whatever
\* the outcome of the relay attempts for other sequences: it stays above
\* lastSequence, the only condition (relay.ts 231) under which a later cycle
\* attempts it again.
C16_AwaitingStaysRetryable == \A s \in awaiting : s > lastSequence

(***************************************************************************)
(* Repeated calls of the decoding operations.  They are synchronous, so    *)
(* an interleaving of calls is an order of whole calls.  A call reads      *)
(* nothing but its argument; what it can leave behind is the content of    *)
(* the buffer, which node.value (subarray) and vaaBytes.slice share with   *)
(* their results.                                                          *)
(***************************************************************************)
CallOps == {"parseAsn1", "getSubjectPublicKeyInfoNode", "getRsaPublicKeyNE", "extractPayload"}

\* What the operation returns on the bytes.
callResult(op, bytes) ==
    IF op = "parseAsn1" THEN parseAsn1(bytes, 0)
    ELSE IF op = "getSubjectPublicKeyInfoNode" THEN getSubjectPublicKeyInfoNode(bytes)
    ELSE IF op = "getRsaPublicKeyNE" THEN getRsaPublicKeyNEFromDer(bytes)
    ELSE extractPayload(bytes)

\* A plausible slip: the parser marks the buffer as consumed by clearing its
\* first byte.
bytesAfter_FirstByteCleared(op, bytes) ==
    IF bytes = <<>> THEN bytes ELSE [bytes EXCEPT ![1] = 0]

\* The content of the buffer when the operation returns: source.js 30-171 and
\* relay.ts 77-82 hold no store into the buffer or into a view of it.
bytesAfter(op, bytes) == bytes

CallBuffers ==
    {CertOf([kind |-> "cert", lead |-> 160, fields |-> 6, fault |-> "none",
             modulus |-> <<0, 255>>, exponent |-> <<1, 0, 1>>]),
     <<48, 3, 2, 1, 5>>,
     <<>>,
     FullVaa(1, 255, <<65, 195, 169>>)}

CallSlots == {1, 2}

CallInit ==
    /\ \E input \in [CallSlots -> CallBuffers] :
          callBufs = [b \in CallSlots |-> [input |-> input[b], bytes |-> input[b]]]
    /\ callFirst = [b \in CallSlots |-> [op \in CallOps |-> [kind |-> "none"]]]
    /\ callLast = [kind |-> "none"]

\* One call of op on the buffer in slot b.
Call(b, op) ==
    LET result == callResult(op, callBufs[b].bytes)
    IN  /\ callLast' = [kind |-> "call", buf |-> b, op |-> op, result |-> result,
                        repeat |-> callFirst[b][op].kind # "none"]
        /\ callFirst' = IF callFirst[b][op].kind = "none"
                        THEN [callFirst EXCEPT ![b][op] = result]
                        ELSE callFirst
        /\ callBufs' = [callBufs EXCEPT ![b].bytes = bytesAfter(op, @)]
        /\ UNCHANGED callFrame

\* source.js 43-77
CallParseAsn1 == \E b \in CallSlots : Call(b, "parseAsn1")
\* source.js 97-119
CallGetSubjectPublicKeyInfoNode == \E b \in CallSlots : Call(b, "getSubjectPublicKeyInfoNode")
\* source.js 124-171
CallGetRsaPublicKeyNE == \E b \in CallSlots : Call(b, "getRsaPublicKeyNE")
\* relay.ts 77-82
CallExtractPayload == \E b \in CallSlots : Call(b, "extractPayload")

CallNext ==
    \/ CallParseAsn1
    \/ CallGetSubjectPublicKeyInfoNode
    \/ CallGetRsaPublicKeyNE
    \/ CallExtractPayload

InitCalls == CallInit /\ VaaIdle /\ AsnIdle /\ WatchIdle /\ ConIdle /\ AdapterIdle /\ PostIdle /\ BotIdle /\ EmitterIdle

SpecCalls == InitCalls /\ [][CallNext]_vars

MaxTime == 3
MaxRequests == 2
DefaultInterval == 1

Owner == "owner"
Accounts == {"owner", "keeper"}
Intervals == {2}
Sources == {<<>>, <<"s">>}
Responses == {<<>>, <<7>>, <<8>>}
Errors == {<<>>, <<1>>}
\* msg.value and the balance of the contract, wormhole.messageFee(), the
\* sequence that wormhole.publishMessage returns.
Values == {0, 1}
Fees == {0, 1}
Sequences == {1, 2}

Reverted(st) == [reverted |-> TRUE, con |-> st]
Done(st) == [reverted |-> FALSE, con |-> st]

\* part_002 76-78
setSource(st, sender, source) ==
    IF sender # Owner THEN Reverted(st) ELSE Done([st EXCEPT !.source = source])

\* part_002 105-107
setUpdateInterval(st, sender, interval) ==
    IF sender # Owner THEN Reverted(st) ELSE Done([st EXCEPT !.updateInterval = interval])

\* part_002 113-115
setAutomationEnabled(st, sender, enabled) ==
    IF sender # Owner THEN Reverted(st) ELSE Done([st EXCEPT !.automationEnabled = enabled])

\* A plausible slip: > in place of >=.
checkUpkeep_StrictInterval(st, now) ==
    /\ st.automationEnabled
    /\ Len(st.source) > 0
    /\ (now - st.lastAutomationTimestamp) > st.updateInterval

\* part_002 125-132
checkUpkeep(st, now) ==
    /\ st.automationEnabled
    /\ Len(st.source) > 0
    /\ (now - st.lastAutomationTimestamp) >= st.updateInterval

\* A plausible slip: the interval is not validated again in performUpkeep.
performUpkeep_NoIntervalCheck(st, now, router) ==
    IF ~st.automationEnabled THEN Done(st) @@ [sent |-> FALSE]
    ELSE IF Len(st.source) = 0 THEN Done(st) @@ [sent |-> FALSE]
    ELSE IF ~router.ok THEN Reverted(st) @@ [sent |-> FALSE]
    ELSE Done([st EXCEPT !.lastAutomationTimestamp = now,
                         !.s_lastRequestId = router.requestId]) @@ [sent |-> TRUE]

\* part_002 138-166.  router: what _sendRequest does, return a new request id
\* or revert.
performUpkeep(st, now, router) ==
    IF ~st.automationEnabled THEN Done(st) @@ [sent |-> FALSE]
    ELSE IF Len(st.source) = 0 THEN Done(st) @@ [sent |-> FALSE]
    ELSE IF now < st.lastAutomationTimestamp THEN Reverted(st) @@ [sent |-> FALSE]
    ELSE IF (now - st.lastAutomationTimestamp) < st.updateInterval
    THEN Done(st) @@ [sent |-> FALSE]
    ELSE IF ~router.ok THEN Reverted(st) @@ [sent |-> FALSE]
    ELSE Done([st EXCEPT !.lastAutomationTimestamp = now,
                         !.s_lastRequestId = router.requestId]) @@ [sent |-> TRUE]

\* part_002 174-187
requestCertificates(st, sender, router) ==
    IF sender # Owner THEN Reverted(st) @@ [sent |-> FALSE]
    ELSE IF ~router.ok THEN Reverted(st) @@ [sent |-> FALSE]
    ELSE Done([st EXCEPT !.s_lastRequestId = router.requestId]) @@ [sent |-> TRUE]

\* part_002 248-265: payable, the value stays in the contract.
requestAndPublish(st, sender, value, router) ==
    IF sender # Owner THEN Reverted(st) @@ [sent |-> FALSE]
    ELSE IF ~router.ok THEN Reverted(st) @@ [sent |-> FALSE]
    ELSE Done([st EXCEPT !.s_lastRequestId = router.requestId,
                         !.balance = @ + value]) @@ [sent |-> TRUE]

\* A plausible slip: the callback does not compare the request id.
fulfillRequest_AnyRequest(st, requestId, response, err, now) ==
    IF Len(response) > 0 /\ Len(err) = 0
    THEN Done([st EXCEPT !.s_lastError = err,
                         !.latestCertPayload = response,
                         !.lastUpdateTimestamp = now])
    ELSE Done([st EXCEPT !.s_lastError = err])

\* A plausible slip: a response without error is stored even when it is
\* empty.
fulfillRequest_StoresEmpty(st, requestId, response, err, now) ==
    IF st.s_lastRequestId # requestId THEN Reverted(st)
    ELSE IF Len(err) = 0
    THEN Done([st EXCEPT !.s_lastError = err,
                         !.latestCertPayload = response,
                         !.lastUpdateTimestamp = now])
    ELSE Done([st EXCEPT !.s_lastError = err])

\* A plausible slip: a response is stored whenever it is not empty.
fulfillRequest_StoresDespiteError(st, requestId, response, err, now) ==
    IF st.s_lastRequestId # requestId THEN Reverted(st)
    ELSE IF Len(response) > 0
    THEN Done([st EXCEPT !.s_lastError = err,
                         !.latestCertPayload = response,
                         !.lastUpdateTimestamp = now])
    ELSE Done([st EXCEPT !.s_lastError = err])

\* part_002 192-210
fulfillRequest(st, requestId, response, err, now) ==
    IF st.s_lastRequestId # requestId THEN Reverted(st)
    ELSE IF Len(response) > 0 /\ Len(err) = 0
    THEN Done([st EXCEPT !.s_lastError = err,
                         !.latestCertPayload = response,
                         !.lastUpdateTimestamp = now])
    ELSE Done([st EXCEPT !.s_lastError = err])

NothingPublished == [forwarded |-> 0, payload |-> <<>>, refund |-> 0]

\* A plausible slip: the whole attached value is forwarded and nothing refunded.
publishToWormhole_ForwardsValue(st, value, fee, wormhole, refundOk) ==
    IF ~(Len(st.latestCertPayload) > 0) THEN Reverted(st) @@ NothingPublished
    ELSE IF value < fee THEN Reverted(st) @@ NothingPublished
    ELSE IF ~wormhole.ok THEN Reverted(st) @@ NothingPublished
    ELSE Done([st EXCEPT !.lastWormholeSequence = wormhole.sequence])
         @@ [forwarded |-> value, payload |-> st.latestCertPayload, refund |-> 0]

\* part_002 217-242.  wormhole: what publishMessage does, return a sequence
\* or revert; refundOk: whether the caller accepts the transfer.
publishToWormhole(st, value, fee, wormhole, refundOk) ==
    IF ~(Len(st.latestCertPayload) > 0) THEN Reverted(st) @@ NothingPublished
    ELSE IF value < fee THEN Reverted(st) @@ NothingPublished
    ELSE IF ~wormhole.ok THEN Reverted(st) @@ NothingPublished
    ELSE IF value > fee /\ ~refundOk THEN Reverted(st) @@ NothingPublished
    ELSE LET received == st.balance + value
             afterPublish == received - fee
             refund == IF value > fee THEN value - fee ELSE 0
         IN  Done([st EXCEPT !.lastWormholeSequence = wormhole.sequence,
                             !.balance = afterPublish - refund])
             @@ [forwarded |-> fee, payload |-> st.latestCertPayload, refund |-> refund]

\* part_002 303-305
withdraw(st, sender, transferOk) ==
    IF sender # Owner THEN Reverted(st)
    ELSE IF ~transferOk THEN Reverted(st)
    ELSE Done([st EXCEPT !.balance = 0])

\* part_002 307
receive(st, value) == Done([st EXCEPT !.balance = @ + value])

\* part_002 29-50 and 61-70: the storage after construction.
ConInit ==
    /\ con = [s_lastRequestId |-> 0,
              s_lastError |-> <<>>,
              updateInterval |-> DefaultInterval,
              lastAutomationTimestamp |-> 0,
              automationEnabled |-> TRUE,
              latestCertPayload |-> <<>>,
              lastUpdateTimestamp |-> 0,
              lastWormholeSequence |-> 0,
              source |-> <<>>,
              balance |-> 0]
    /\ chain = [now |-> 2, requests |-> 0, pending |-> {}, autoSentAt |-> -1]
    /\ conTx = [kind |-> "constructor", reverted |-> FALSE]

\* What the Functions router answers to _sendRequest: the next request id, or
\* a revert.
RouterAnswers ==
    {[ok |-> FALSE, requestId |-> 0]}
    \cup (IF chain.requests < MaxRequests
          THEN {[ok |-> TRUE, requestId |-> chain.requests + 1]} ELSE {})

\* The chain after a call of _sendRequest.
Sent(out, router) ==
    IF out.sent
    THEN [chain EXCEPT !.requests = router.requestId, !.pending = @ \cup {router.requestId}]
    ELSE chain

\* What wormhole.publishMessage and the refund transfer to the caller do: the
\* message is published under a new sequence and the refund accepted, or
\* one of the two calls reverts.
ExternalAnswers ==
    {[wormhole |-> [ok |-> TRUE, sequence |-> q], refundOk |-> TRUE] : q \in Sequences}
    \cup {[wormhole |-> [ok |-> FALSE, sequence |-> 0], refundOk |-> TRUE],
          [wormhole |-> [ok |-> TRUE, sequence |-> 1], refundOk |-> FALSE]}

\* What is kept of a call of one of the onlyOwner functions: whether it
\* reverted.
OwnerCall(out) == [kind |-> "onlyOwner", reverted |-> out.reverted]

\* A later block; conTx is the last transaction of the current block.
Tick ==
    /\ chain.now < MaxTime
    /\ chain' = [chain EXCEPT !.now = @ + 1]
    /\ conTx' = [kind |-> "block", reverted |-> FALSE]
    /\ UNCHANGED con
    /\ UNCHANGED conFrame

SetSource ==
    /\ \E sender \in Accounts, source \in Sources :
          LET out == setSource(con, sender, source)
          IN  /\ con' = out.con
              /\ conTx' = OwnerCall(out)
    /\ UNCHANGED chain
    /\ UNCHANGED conFrame

SetUpdateInterval ==
    /\ \E sender \in Accounts, interval \in Intervals :
          LET out == setUpdateInterval(con, sender, interval)
          IN  /\ con' = out.con
              /\ conTx' = OwnerCall(out)
    /\ UNCHANGED chain
    /\ UNCHANGED conFrame

SetAutomationEnabled ==
    /\ \E sender \in Accounts, enabled \in BOOLEAN :
          LET out == setAutomationEnabled(con, sender, enabled)
          IN  /\ con' = out.con
              /\ conTx' = OwnerCall(out)
    /\ UNCHANGED chain
    /\ UNCHANGED conFrame

PerformUpkeep ==
    /\ \E router \in RouterAnswers :
          LET out == performUpkeep(con, chain.now, router)
          IN  /\ con' = out.con
              /\ chain' = IF out.sent
                          THEN [Sent(out, router) EXCEPT !.autoSentAt = chain.now]
                          ELSE chain
              /\ conTx' = [kind |-> "performUpkeep",
                           reverted |-> out.reverted, sent |-> out.sent,
                           needed |-> checkUpkeep(con, chain.now),
                           gap |-> IF chain.autoSentAt < 0 THEN -1
                                   ELSE chain.now - chain.autoSentAt]
    /\ UNCHANGED conFrame

RequestCertificates ==
    /\ \E sender \in Accounts, router \in RouterAnswers :
          LET out == requestCertificates(con, sender, router)
          IN  /\ con' = out.con
              /\ chain' = Sent(out, router)
              /\ conTx' = OwnerCall(out)
    /\ UNCHANGED conFrame

RequestAndPublish ==
    /\ \E sender \in Accounts, value \in Values, router \in RouterAnswers :
          /\ con.balance + value \in Values
          /\ LET out == requestAndPublish(con, sender, value, router)
             IN  /\ con' = out.con
                 /\ chain' = Sent(out, router)
                 /\ conTx' = OwnerCall(out)
    /\ UNCHANGED conFrame

\* FunctionsClient.handleOracleFulfillment: the router delivers the answer to
\* one of its pending requests, once.
FulfillRequest ==
    /\ \E requestId \in chain.pending, response \in Responses, err \in Errors :
          LET out == fulfillRequest(con, requestId, response, err, chain.now)
          IN  /\ con' = out.con
              /\ chain' = [chain EXCEPT !.pending = @ \ {requestId}]
              /\ conTx' = IF out.reverted
                          THEN [kind |-> "fulfillRequest", requestId |-> requestId,
                                reverted |-> TRUE]
                          ELSE [kind |-> "fulfillRequest", requestId |-> requestId,
                                response |-> response, err |-> err,
                                reverted |-> FALSE]
    /\ UNCHANGED conFrame

PublishToWormhole ==
    /\ \E value \in Values, fee \in Fees, external \in ExternalAnswers :
          /\ LET wormhole == external.wormhole
                 refundOk == external.refundOk
                 out == publishToWormhole(con, value, fee, wormhole, refundOk)
             IN  /\ con' = out.con
                 /\ UNCHANGED chain
                 /\ conTx' = IF out.reverted
                             THEN [kind |-> "publishToWormhole", reverted |-> TRUE,
                                   hadPayload |-> con.latestCertPayload # <<>>,
                                   short |-> value < fee]
                             ELSE [kind |-> "publishToWormhole", reverted |-> FALSE,
                                   hadPayload |-> con.latestCertPayload # <<>>,
                                   short |-> value < fee,
                                   value |-> value, fee |-> fee,
                                   forwarded |-> out.forwarded, payload |-> out.payload,
                                   refund |-> out.refund, sequence |-> wormhole.sequence,
                                   balanceBefore |-> con.balance]
    /\ UNCHANGED conFrame

Withdraw ==
    /\ \E sender \in Accounts, transferOk \in BOOLEAN :
          LET out == withdraw(con, sender, transferOk)
          IN  /\ con' = out.con
              /\ conTx' = OwnerCall(out)
    /\ UNCHANGED chain
    /\ UNCHANGED conFrame

Receive ==
    /\ \E value \in Values \ {0} :
          /\ con.balance + value \in Values
          /\ con' = receive(con, value).con
          /\ conTx' = [kind |-> "receive", reverted |-> FALSE]
    /\ UNCHANGED chain
    /\ UNCHANGED conFrame

ConNext ==
    \/ Tick
    \/ SetSource
    \/ SetUpdateInterval
    \/ SetAutomationEnabled
    \/ PerformUpkeep
    \/ RequestCertificates
    \/ RequestAndPublish
    \/ FulfillRequest
    \/ PublishToWormhole
    \/ Withdraw
    \/ Receive

InitConsumer == ConInit /\ VaaIdle /\ AsnIdle /\ WatchIdle /\ CallIdle /\ AdapterIdle /\ PostIdle /\ BotIdle /\ EmitterIdle

SpecConsumer == InitConsumer /\ [][ConNext]_vars

\* The step is a call of the named function.
Called(kind) == conTx'.kind = kind

\* C25: a callback whose request id is not s_lastRequestId reverts and leaves
\* the storage as it was, a callback for s_lastRequestId does not revert, and
\* the stored payload changes only in a callback for s_lastRequestId, the
\* request sent last.
C25_OnlyCurrentRequestStored ==
    [][/\ Called("fulfillRequest") =>
             IF conTx'.requestId # con.s_lastRequestId
             THEN conTx'.reverted /\ con' = con
             ELSE ~conTx'.reverted
       /\ con'.latestCertPayload # con.latestCertPayload =>
             /\ Called("fulfillRequest")
             /\ conTx'.requestId = con.s_lastRequestId
             /\ conTx'.requestId = chain.requests]_vars

\* The answer to a superseded request was delivered and rejected while a
\* payload of an earlier request is stored.
C25_Witness ==
    /\ conTx.kind = "fulfillRequest"
    /\ conTx.reverted
    /\ conTx.requestId < con.s_lastRequestId
    /\ con.latestCertPayload # <<>>

\* C26: performUpkeep sends a request only when checkUpkeep holds, and then
\* sets lastAutomationTimestamp to the block time; when checkUpkeep does not
\* hold it returns without reverting and changes nothing; a request sent by
\* performUpkeep comes at least updateInterval after the one before it.
C26_UpkeepOnlyWhenDue ==
    [][Called("performUpkeep") =>
          /\ conTx'.needed = checkUpkeep(con, chain.now)
          /\ conTx'.sent => /\ conTx'.needed
                            /\ con'.lastAutomationTimestamp = chain.now
                            /\ chain'.requests = chain.requests + 1
                            /\ conTx'.gap >= 0 => conTx'.gap >= con.updateInterval
          /\ ~conTx'.sent => con' = con /\ chain' = chain
          /\ ~conTx'.needed => ~conTx'.reverted]_vars

\* performUpkeep sent a second request, in a later block than the first.
C26_Witness ==
    /\ conTx.kind = "performUpkeep"
    /\ conTx.sent
    /\ conTx.gap >= 1
    /\ con.s_lastRequestId = 2

\* performUpkeep declined a call that came too early after a request it had
\* sent.
C26_DeclinedEarly ==
    /\ conTx.kind = "performUpkeep"
    /\ ~conTx.sent /\ ~conTx.reverted
    /\ con.automationEnabled /\ con.source # <<>>
    /\ conTx.gap >= 0
    /\ conTx.gap < con.updateInterval

\* C27: latestCertPayload and lastUpdateTimestamp change only in a callback
\* that did not revert and carried a response and no error; such a callback
\* stores the response and the block time; a callback with an error or
\* without a response that did not revert records the error and leaves the
\* payload and its timestamp as they were.
C27_PayloadChangesOnlyOnSuccess ==
    [][/\ (\/ con'.latestCertPayload # con.latestCertPayload
           \/ con'.lastUpdateTimestamp # con.lastUpdateTimestamp) =>
             /\ Called("fulfillRequest")
             /\ ~conTx'.reverted
             /\ conTx'.response # <<>>
             /\ conTx'.err = <<>>
       /\ (Called("fulfillRequest") /\ ~conTx'.reverted) =>
             IF conTx'.response # <<>> /\ conTx'.err = <<>>
             THEN /\ con'.latestCertPayload = conTx'.response
                  /\ con'.lastUpdateTimestamp = chain.now
             ELSE /\ con'.s_lastError = conTx'.err
                  /\ con'.latestCertPayload = con.latestCertPayload
                  /\ con'.lastUpdateTimestamp = con.lastUpdateTimestamp]_vars

\* A callback with a response and an error was accepted in a later block
\* than the one that stored the payload, which is a different one.
C27_Witness ==
    /\ conTx.kind = "fulfillRequest"
    /\ ~conTx.reverted
    /\ conTx.response # <<>>
    /\ conTx.err # <<>>
    /\ con.s_lastError = conTx.err
    /\ con.latestCertPayload # <<>>
    /\ con.latestCertPayload # conTx.response
    /\ con.lastUpdateTimestamp < chain.now

\* C28: publishToWormhole reverts when no payload is stored or the value is
\* below the fee; when it reverts the storage and the balance are as before;
\* when it does not, it forwarded the fee with the stored payload, recorded
\* the returned sequence, refunded value - fee and changed nothing else, so
\* that the balance of the contract is the one before the call.
C28_PublishForwardsFee ==
    [][Called("publishToWormhole") =>
          /\ conTx'.hadPayload = (con.latestCertPayload # <<>>)
          /\ (~conTx'.hadPayload \/ conTx'.short) => conTx'.reverted
          /\ conTx'.reverted => con' = con
          /\ ~conTx'.reverted =>
                /\ conTx'.forwarded = conTx'.fee
                /\ conTx'.payload = con.latestCertPayload
                /\ conTx'.refund = conTx'.value - conTx'.fee
                /\ con' = [con EXCEPT !.lastWormholeSequence = conTx'.sequence]
          /\ con'.balance = con.balance]_vars

\* A publication with a value above the fee went through while the contract
\* held a balance, and changed the recorded sequence.
C28_Witness ==
    /\ conTx.kind = "publishToWormhole"
    /\ ~conTx.reverted
    /\ conTx.value > conTx.fee
    /\ conTx.refund = 1
    /\ conTx.balanceBefore = 1
    /\ con.balance = 1
    /\ con.lastWormholeSequence = 2

(***************************************************************************)
(* The Chainlink external adapter (chainlink-adapter/src/index.ts).  A     *)
(* JavaScript value of a request body is a record with its kind.  The      *)
(* certificate document that Google serves is the sequence of its key ids  *)
(* in the order served; a text derived from it (JSON, SHA-256 digest, hex) *)
(* is the record of how it was derived.                                    *)
(***************************************************************************)
Absent == [kind |-> "undefined"]
Str(text) == [kind |-> "string", text |-> text]
Num(n) == [kind |-> "number", n |-> n]
Obj(format) == [kind |-> "object", format |-> format]

\* The values that || and ! treat as false.
Falsy(v) ==
    \/ v.kind = "undefined"
    \/ v.kind = "string" /\ v.text = ""
    \/ v.kind = "number" /\ v.n = 0

\* a || b
OrElse(a, b) == IF Falsy(a) THEN b ELSE a

CertDocs == {<<1, 2>>, <<2, 1>>, <<3>>}

\* Object.keys(certs).sort()
SortedKeys(certs) ==
    LET keys == {certs[i] : i \in DOMAIN certs}
    IN  CHOOSE q \in [1..Cardinality(keys) -> keys] :
            \A i, j \in 1..Cardinality(keys) : i < j => q[i] < q[j]

\* JSON.stringify(certs, keys): the entries of keys, in the order of keys.
JsonStringify(certs, keys) == [kind |-> "json", keys |-> keys]

Sha256Hex(text) == [kind |-> "sha256", of |-> text]

\* index.ts 70-74
certsToBytes(certs) == [kind |-> "0xhex", of |-> JsonStringify(certs, certs)]

\* index.ts 47-64.  response: what axios.get produced; now: Date.now().
fetchGoogleCerts(response, now) ==
    IF response.kind # "ok" THEN [kind |-> "throw", message |-> response.message]
    ELSE LET certs == response.data
             certJson == JsonStringify(certs, SortedKeys(certs))
         IN  [kind |-> "ok", certs |-> certs, hash |-> Sha256Hex(certJson),
              timestamp |-> now]

\* index.ts 89: req.body.data?.format
formatOf(body) == IF body.data.kind = "object" THEN body.data.format ELSE Absent

\* A plausible slip: the default case of the switch returns the hash.
resultFor_DefaultHash(format, fetched, kidCount) ==
    IF format = Str("bytes") THEN certsToBytes(fetched.certs)
    ELSE IF format = Str("json")
    THEN [kind |-> "object", certificates |-> fetched.certs, hash |-> fetched.hash,
          timestamp |-> fetched.timestamp, kidCount |-> kidCount]
    ELSE fetched.hash

\* index.ts 99-120
resultFor(format, fetched, kidCount) ==
    IF format = Str("hash") THEN fetched.hash
    ELSE IF format = Str("bytes") THEN certsToBytes(fetched.certs)
    ELSE [kind |-> "object", certificates |-> fetched.certs, hash |-> fetched.hash,
          timestamp |-> fetched.timestamp, kidCount |-> kidCount]

\* index.ts 87-147: the status and the JSON body of the response.
postRoot(body, fetched) ==
    LET jobRunID == OrElse(body.id, Str("1"))
        format == OrElse(formatOf(body), Str("json"))
    IN  IF fetched.kind = "ok"
        THEN LET kidCount == Len(fetched.certs)
             IN  [status |-> 200,
                  body |-> [jobRunID |-> jobRunID, statusCode |-> 200,
                            data |-> [result |-> resultFor(format, fetched, kidCount),
                                      hash |-> fetched.hash,
                                      timestamp |-> fetched.timestamp,
                                      kidCount |-> kidCount]]]
        ELSE [status |-> 500,
              body |-> [jobRunID |-> jobRunID, statusCode |-> 500,
                        error |-> OrElse(fetched.message,
                                         Str("Failed to fetch Google certificates"))]]

JobIds == {Absent, Str(""), Num(0), Str("job-123"), Num(7)}
Formats == {Absent, Str(""), Str("json"), Str("hash"), Str("bytes"), Str("xml")}
RequestBodies == [id : JobIds, data : {Absent} \cup {Obj(f) : f \in Formats}]
Timestamps == {1, 2}
GoogleResponses ==
    {[kind |-> "ok", data |-> d] : d \in CertDocs}
    \cup {[kind |-> "error", message |-> m] : m \in {Str("Network Error"), Str("")}}

PostInit == post = [kind |-> "listening"]

PostRoot ==
    /\ \E body \in RequestBodies, response \in GoogleResponses, now \in Timestamps :
          LET fetched == fetchGoogleCerts(response, now)
          IN  post' = [kind |-> "POST /", req |-> body, fetched |-> fetched,
                       res |-> postRoot(body, fetched)]
    /\ UNCHANGED postFrame

PostNext == PostRoot

InitPost == PostInit /\ VaaIdle /\ AsnIdle /\ WatchIdle /\ CallIdle /\ ConIdle /\ AdapterIdle /\ BotIdle /\ EmitterIdle

SpecPost == InitPost /\ [][PostNext]_vars

Answered == post.kind = "POST /"

\* The format that selects the result: the one of the request, "json" when
\* the request has none.
RequestedFormat == IF Falsy(formatOf(post.req)) THEN Str("json") ELSE formatOf(post.req)

\* What the claim states apart from the job id.
AnswerMatches ==
    IF post.fetched.kind = "ok"
    THEN /\ post.res.status = 200
         /\ post.res.body.statusCode = 200
         /\ "error" \notin DOMAIN post.res.body
         /\ LET data == post.res.body.data
                certs == post.fetched.certs
                hash == Sha256Hex(JsonStringify(certs, SortedKeys(certs)))
            IN  /\ data.hash = hash
                /\ data.timestamp = post.fetched.timestamp
                /\ data.kidCount = Cardinality({certs[i] : i \in DOMAIN certs})
                /\ data.result =
                      IF RequestedFormat = Str("hash") THEN hash
                      ELSE IF RequestedFormat = Str("bytes")
                      THEN [kind |-> "0xhex", of |-> JsonStringify(certs, certs)]
                      ELSE [kind |-> "object", certificates |-> certs, hash |-> hash,
                            timestamp |-> data.timestamp, kidCount |-> data.kidCount]
    ELSE /\ post.res.status = 500
         /\ post.res.body.statusCode = 500
         /\ "data" \notin DOMAIN post.res.body
         /\ post.res.body.error.kind = "string"
         /\ post.res.body.error.text # ""

\* C24 as stated: the response carries the job id of the request, "1" when
\* the request has none, and the result that the format selects; 500 with
\* the same job id, an error and no data when the fetch failed.
C24_JobIdOfRequest ==
    Answered =>
       /\ post.res.body.jobRunID =
             (IF post.req.id = Absent THEN Str("1") ELSE post.req.id)
       /\ AnswerMatches

\* C24: the response carries the job id of the request, "1" when the id is
\* absent or another value that JavaScript treats as false (the empty
\* string, 0), and the result that the format selects; 500 with the same job
\* id, an error and no data when the fetch failed.
C24_JobIdOrDefault ==
    Answered =>
       /\ post.res.body.jobRunID =
             (IF Falsy(post.req.id) THEN Str("1") ELSE post.req.id)
       /\ AnswerMatches

\* A request with an empty job id and the format "bytes" was answered with
\* the hex of a document whose keys are not served in sorted order.
C24_Witness ==
    /\ Answered
    /\ post.req.id = Str("")
    /\ post.req.data = Obj(Str("bytes"))
    /\ post.res.status = 200
    /\ post.res.body.jobRunID = Str("1")
    /\ post.fetched.certs = <<2, 1>>
    /\ post.res.body.data.result # [kind |-> "0xhex", of |-> post.res.body.data.hash.of]

(***************************************************************************)
(* publishToWormhole of the adapter (index.ts 196-254), called by the cron *)
(* job (272-275, 287) and by POST /publish (294-311).  A call is suspended *)
(* at each await: the fetch, the submission of the transaction and the     *)
(* wait for its receipt; calls in progress interleave at these points.     *)
(* adapterConfig tells whether ARBITRUM_RPC_URL, PRIVATE_KEY and           *)
(* EMITTER_ADDRESS are all set; the process does not change them.          *)
(***************************************************************************)
Triggers == {"cron", "manual"}

NotRunning == [pc |-> "idle"]

\* index.ts 204-212: what a call does with the outcome of its fetch.
afterFetch(fetched, last) ==
    IF fetched.kind = "throw" THEN "error"
    ELSE IF fetched.hash = last THEN "skip"
    ELSE "publish"

\* A plausible slip: lastPublishedHash is set when the transaction is sent,
\* whatever becomes of it.
hashAfterWait_Unconfirmed(last, hash, receipt) == hash

\* index.ts 227-253: lastPublishedHash after await tx.wait().
hashAfterWait(last, hash, receipt) == IF receipt THEN hash ELSE last

AdapterInit ==
    /\ lastPublishedHash = Str("")
    /\ adapterConfig \in BOOLEAN
    /\ runs = [t \in Triggers |-> NotRunning]
    /\ google = <<1, 2>>
    /\ published = [kind |-> "none"]
    /\ adapterEvent = [kind |-> "listening"]

\* Google serves another document.
Rotate ==
    /\ \E d \in CertDocs \ {google} : google' = d
    /\ UNCHANGED <<lastPublishedHash, adapterConfig, runs, published, adapterEvent>>
    /\ UNCHANGED adapterFrame

\* index.ts 196-204: a call starts and waits for the fetch.
StartPublish(t) ==
    /\ runs[t].pc = "idle"
    /\ IF adapterConfig
       THEN /\ runs' = [runs EXCEPT ![t] = [pc |-> "fetching"]]
            /\ adapterEvent' = [kind |-> "started", run |-> t]
       ELSE /\ runs' = runs
            /\ adapterEvent' = [kind |-> "missing config", run |-> t,
                                returned |-> "null"]
    /\ UNCHANGED <<lastPublishedHash, adapterConfig, google, published>>
    /\ UNCHANGED adapterFrame

\* index.ts 204-224: the fetch is over; the call returns, or submits the
\* transaction and waits for the submission.
Fetched(t) ==
    /\ runs[t].pc = "fetching"
    /\ \E response \in {[kind |-> "ok", data |-> google],
                        [kind |-> "error", message |-> Str("Network Error")]} :
          LET fetched == fetchGoogleCerts(response, 1)
              decision == afterFetch(fetched, lastPublishedHash)
          IN  /\ runs' = [runs EXCEPT ![t] =
                            IF decision = "publish"
                            THEN [pc |-> "sending", certs |-> fetched.certs,
                                  hash |-> fetched.hash]
                            ELSE NotRunning]
              /\ adapterEvent' = IF decision = "publish"
                                 THEN [kind |-> decision, run |-> t]
                                 ELSE [kind |-> decision, run |-> t, at |-> "fetch",
                                       returned |-> "null"]
    /\ UNCHANGED <<lastPublishedHash, adapterConfig, google, published>>
    /\ UNCHANGED adapterFrame

\* index.ts 224-227: the node accepted the transaction, or the submission
\* threw.
Submitted(t) ==
    /\ runs[t].pc = "sending"
    /\ \E ok \in BOOLEAN :
          /\ runs' = [runs EXCEPT ![t] =
                         IF ok THEN [pc |-> "waiting", hash |-> runs[t].hash]
                         ELSE NotRunning]
          /\ adapterEvent' = IF ok THEN [kind |-> "sent", run |-> t]
                             ELSE [kind |-> "error", run |-> t, at |-> "send",
                                   returned |-> "null"]
    /\ UNCHANGED <<lastPublishedHash, adapterConfig, google, published>>
    /\ UNCHANGED adapterFrame

\* index.ts 227-249: the transaction was mined and lastPublishedHash is set,
\* or tx.wait() threw because the transaction reverted.
Confirmed(t) ==
    /\ runs[t].pc = "waiting"
    /\ \E ok \in BOOLEAN :
          /\ runs' = [runs EXCEPT ![t] = NotRunning]
          /\ lastPublishedHash' = hashAfterWait(lastPublishedHash, runs[t].hash, ok)
          /\ IF ok
             THEN /\ published' = runs[t].hash
                  /\ adapterEvent' = [kind |-> "confirmed", run |-> t,
                                      hash |-> runs[t].hash, previous |-> published,
                                      returned |-> "result"]
             ELSE /\ UNCHANGED published
                  /\ adapterEvent' = [kind |-> "error", run |-> t, at |-> "wait",
                                      returned |-> "null"]
    /\ UNCHANGED <<google, adapterConfig>>
    /\ UNCHANGED adapterFrame

AdapterNext ==
    \/ Rotate
    \/ \E t \in Triggers : StartPublish(t)
    \/ \E t \in Triggers : Fetched(t)
    \/ \E t \in Triggers : Submitted(t)
    \/ \E t \in Triggers : Confirmed(t)

InitAdapter == AdapterInit /\ VaaIdle /\ AsnIdle /\ WatchIdle /\ CallIdle /\ ConIdle /\ PostIdle /\ BotIdle /\ EmitterIdle

SpecAdapter == InitAdapter /\ [][AdapterNext]_vars

\* C29: a confirmed publication never carries the certificate set of the
\* publication confirmed before it.
C29_NeverSameSetTwice ==
    adapterEvent.kind = "confirmed" => adapterEvent.hash # adapterEvent.previous

(***************************************************************************)
(* The bot (bot/src): main polls Google and calls publishSnapshot when the *)
(* document changed.  bot.pc is the await at which main is suspended:      *)
(* "poll" before fetchGoogleCerts (line 15), "publish" in publishSnapshot  *)
(* before its own fetch (publish-snapshot.ts 61-78), "sending" before the  *)
(* transaction is submitted (84), "waiting" before its receipt (89),       *)
(* "sleep" in the timer (line 30).  The environment variables are set.     *)
(***************************************************************************)
\* publish-snapshot.ts 36-42: the JSON text of the document as served, or
\* the error thrown.
fetchGoogleCertsJson(response) ==
    IF response.kind # "ok" THEN [kind |-> "throw", message |-> response.message]
    ELSE JsonStringify(response.data, response.data)

\* A plausible slip: a snapshot is published in every cycle.
certsChanged_Always(currentCerts, lastCerts) == TRUE

\* part_000 17
certsChanged(currentCerts, lastCerts) == currentCerts # lastCerts

BotResponses ==
    {[kind |-> "ok", data |-> botGoogle],
     [kind |-> "error", message |-> Str("Network Error")]}

BotInit ==
    /\ bot = [pc |-> "poll", lastCerts |-> Str(""), currentCerts |-> Absent,
              snapshotJson |-> Absent]
    /\ botGoogle = <<1, 2>>
    /\ botSent = [kind |-> "none"]
    /\ botEvent = [kind |-> "started"]

\* Google serves another document.
BotRotate ==
    /\ \E d \in CertDocs \ {botGoogle} : botGoogle' = d
    /\ UNCHANGED <<bot, botSent, botEvent>>
    /\ UNCHANGED botFrame

\* part_000 13-27: the fetch of main is over.
BotPoll ==
    /\ bot.pc = "poll"
    /\ \E response \in BotResponses :
          LET fetched == fetchGoogleCertsJson(response)
          IN  IF fetched.kind = "throw"
              THEN /\ bot' = [bot EXCEPT !.pc = "sleep", !.currentCerts = Absent]
                   /\ botEvent' = [kind |-> "failed", at |-> "poll"]
              ELSE IF certsChanged(fetched, bot.lastCerts)
              THEN /\ bot' = [bot EXCEPT !.pc = "publish", !.currentCerts = fetched]
                   /\ botEvent' = [kind |-> "publishSnapshot called", fetched |-> fetched]
              ELSE /\ bot' = [bot EXCEPT !.pc = "sleep", !.currentCerts = fetched]
                   /\ botEvent' = [kind |-> "skipped", fetched |-> fetched]
    /\ UNCHANGED <<botGoogle, botSent>>
    /\ UNCHANGED botFrame

\* publish-snapshot.ts 48-79: the owner check and the fetch of publishSnapshot;
\* a failed getMessageFee falls back to a default and does not throw.
PublishFetch ==
    /\ bot.pc = "publish"
    /\ \E ownerOk \in BOOLEAN, response \in BotResponses :
          LET fetched == fetchGoogleCertsJson(response)
          IN  IF ~ownerOk \/ fetched.kind = "throw"
              THEN /\ bot' = [bot EXCEPT !.pc = "sleep"]
                   /\ botEvent' = [kind |-> "failed", at |-> "publish"]
              ELSE /\ bot' = [bot EXCEPT !.pc = "sending", !.snapshotJson = fetched]
                   /\ botEvent' = [kind |-> "snapshot fetched"]
    /\ UNCHANGED <<botGoogle, botSent>>
    /\ UNCHANGED botFrame

\* publish-snapshot.ts 84-88: the transaction is submitted, or the
\* submission throws.
PublishSend ==
    /\ bot.pc = "sending"
    /\ \E ok \in BOOLEAN :
          IF ok
          THEN /\ bot' = [bot EXCEPT !.pc = "waiting"]
               /\ botSent' = [kind |-> "utf8", of |-> bot.snapshotJson]
               /\ botEvent' = [kind |-> "sent"]
          ELSE /\ bot' = [bot EXCEPT !.pc = "sleep", !.snapshotJson = Absent]
               /\ botSent' = botSent
               /\ botEvent' = [kind |-> "failed", at |-> "send"]
    /\ UNCHANGED botGoogle
    /\ UNCHANGED botFrame

\* publish-snapshot.ts 89-110 and part_000 19-21: the receipt arrives,
\* publishSnapshot returns and main records currentCerts; or tx.wait throws.
PublishWait ==
    /\ bot.pc = "waiting"
    /\ \E ok \in BOOLEAN :
          IF ok
          THEN /\ bot' = [bot EXCEPT !.pc = "sleep", !.lastCerts = bot.currentCerts,
                                     !.snapshotJson = Absent]
               /\ botEvent' = [kind |-> "published"]
          ELSE /\ bot' = [bot EXCEPT !.pc = "sleep", !.snapshotJson = Absent]
               /\ botEvent' = [kind |-> "failed", at |-> "wait"]
    /\ UNCHANGED <<botGoogle, botSent>>
    /\ UNCHANGED botFrame

\* part_000 29-30 and 12: the timer fires and the next cycle begins.
BotSleep ==
    /\ bot.pc = "sleep"
    /\ bot' = [bot EXCEPT !.pc = "poll"]
    /\ botEvent' = [kind |-> "woke"]
    /\ UNCHANGED <<botGoogle, botSent>>
    /\ UNCHANGED botFrame

\* The steps of main.
BotLoop ==
    \/ BotPoll
    \/ PublishFetch
    \/ PublishSend
    \/ PublishWait
    \/ BotSleep

BotNext ==
    \/ BotRotate
    \/ BotLoop

InitBot == BotInit /\ VaaIdle /\ AsnIdle /\ WatchIdle /\ CallIdle /\ ConIdle /\ AdapterIdle /\ PostIdle /\ EmitterIdle

SpecBot == InitBot /\ [][BotNext]_vars

\* main is scheduled whenever one of its awaits can complete.
SpecBotFair == InitBot /\ [][BotNext]_vars /\ WF_vars(BotLoop)

\* A cycle of main begins.
CycleBegins == bot.pc = "poll"

\* C30: a poll is followed by a call of publishSnapshot exactly when its
\* fetch succeeded with a text that differs from lastCerts; lastCerts changes
\* only when publishSnapshot returned, and then to currentCerts; a failed
\* fetch or publish leaves lastCerts as it was and puts main to sleep; and
\* main begins a new cycle again and again.
C30_PublishOnlyOnChange ==
    /\ [][/\ (bot.pc = "poll" /\ bot'.pc # "poll") =>
                (bot'.pc = "publish") =
                   (botEvent'.kind # "failed" /\ bot'.currentCerts # bot.lastCerts)
          /\ (bot'.pc = "publish" /\ bot.pc # "publish") => bot.pc = "poll"
          /\ bot'.lastCerts # bot.lastCerts =>
                /\ botEvent'.kind = "published"
                /\ bot.pc = "waiting"
                /\ bot'.lastCerts = bot.currentCerts
          /\ (botEvent'.kind = "failed" /\ botEvent' # botEvent) =>
                bot'.pc = "sleep" /\ bot'.lastCerts = bot.lastCerts]_vars
    /\ []<>CycleBegins

\* A publish failed after a change was seen, and in a later cycle the same
\* change led to a new call of publishSnapshot.
C30_Witness ==
    /\ botEvent.kind = "publishSnapshot called"
    /\ bot.pc = "publish"
    /\ bot.lastCerts # Str("")
    /\ bot.currentCerts # bot.lastCerts
    /\ botSent.kind = "utf8"
    /\ botSent.of = bot.currentCerts

\* C31: when publishSnapshot has returned, lastCerts is the text whose bytes
\* were sent in that publish.
C31_RecordedIsWhatWasSent ==
    botEvent.kind = "published" =>
       botSent = [kind |-> "utf8", of |-> bot.lastCerts]

\* The step is an iteration of the for loop that calls relayVAA.
RelayStep == watchEvent'.kind = "relay" /\ vaas' # vaas

\* C32: lastSequence never decreases; it changes only to the sequence that
\* relayVAA has just submitted to NEAR with success; relayVAA is called only
\* for a sequence above lastSequence; and no sequence is submitted with
\* success more than once.
C32_LastSequenceMonotone ==
    [][/\ lastSequence' >= lastSequence
       /\ lastSequence' # lastSequence =>
             /\ RelayStep
             /\ watchEvent'.sequence = lastSequence'
             /\ watchEvent'.result.kind = "txHash"
             /\ submitted'[lastSequence'] = submitted[lastSequence'] + 1
       /\ RelayStep => watchEvent'.sequence > lastSequence
       /\ submitted' # submitted => RelayStep /\ watchEvent'.result.kind = "txHash"
       /\ \A s \in 1..MaxSequence : submitted'[s] <= 1]_vars

\* In a later cycle the watcher passed over a sequence it had submitted,
\* after a higher one was submitted too.
C32_Witness ==
    /\ watchEvent.kind = "skip"
    /\ submitted[watchEvent.sequence] = 1
    /\ watchEvent.sequence < lastSequence
    /\ submitted[lastSequence] = 1

\* C33: when the request for the signed VAA is answered 404, fetchVAA returns
\* null and relayVAA throws "VAA not available yet"; when it fails in another
\* way, the error of the request is what relayVAA throws; in both cases
\* nothing is submitted to NEAR and lastSequence stays.
C33_NothingSubmittedOnFetchError ==
    [][(RelayStep /\ watchEvent'.response.kind # "ok") =>
          /\ IF watchEvent'.response.status = 404
             THEN /\ watchEvent'.fetched = "null"
                  /\ watchEvent'.result = Throw("VAA not available yet")
             ELSE /\ watchEvent'.fetched = "throw"
                  /\ watchEvent'.result = [kind |-> "throw", error |-> watchEvent'.response.kind]
          /\ submitted' = submitted
          /\ lastSequence' = lastSequence]_vars

\* A sequence that is listed but not yet signed was answered 404 after an
\* earlier sequence had been submitted.
C33_Witness ==
    /\ watchEvent.kind = "relay"
    /\ watchEvent.response = [kind |-> "http", status |-> 404]
    /\ watchEvent.result = Throw("VAA not available yet")
    /\ submitted[watchEvent.sequence] = 0
    /\ lastSequence >= 1
    /\ lastSequence < watchEvent.sequence

\* The loop can take a step: poll, pass over a VAA, sleep, or call relayVAA,
\* which always returns or throws.
LoopCanStep ==
    \/ ENABLED (Poll \/ Skip \/ Sleep)
    \/ /\ watchPc = "relay"
       /\ vaas # <<>>
       /\ isNewSequence(Head(vaas), lastSequence)
       /\ VaaAnswers(Head(vaas)) # {}

ReturnedNull ==
    /\ adapterEvent' # adapterEvent
    /\ "returned" \in DOMAIN adapterEvent'
    /\ adapterEvent'.returned = "null"

\* C35: lastPublishedHash changes only when the receipt of the transaction
\* has arrived, to the hash of that transaction's document; a call returns
\* null when the configuration is missing or the fetch, the submission or the
\* wait failed (or the document is the one recorded), and lastPublishedHash
\* is then as before, so that a later call compares with the same hash.
C35_HashSetOnConfirmation ==
    [][/\ lastPublishedHash' # lastPublishedHash =>
             /\ adapterEvent'.kind = "confirmed"
             /\ runs[adapterEvent'.run].pc = "waiting"
             /\ lastPublishedHash' = runs[adapterEvent'.run].hash
       /\ (adapterEvent' # adapterEvent
           /\ adapterEvent'.kind \in {"missing config", "error"}) => ReturnedNull
       /\ ReturnedNull =>
             /\ lastPublishedHash' = lastPublishedHash
             /\ runs'[adapterEvent'.run] = NotRunning]_vars

\* The wait for the receipt failed after an earlier document had been
\* published, and the hash recorded is still the earlier one.
C35_Witness ==
    /\ adapterEvent.kind = "error"
    /\ adapterEvent.at = "wait"
    /\ published # [kind |-> "none"]
    /\ lastPublishedHash = published
    /\ afterFetch(fetchGoogleCerts([kind |-> "ok", data |-> google], 1),
                  lastPublishedHash) = "publish"

\* The block timestamps at which the contract can be called from now on.
LaterTimes == chain.now..MaxTime

\* C36: in every state of the contract and at every block timestamp from now
\* on, checkUpkeep returns true exactly when performUpkeep calls _sendRequest
\* (and sends the request when the router accepts it), and false exactly
\* when performUpkeep returns without reverting and with the storage as it
\* was, whatever the router would have answered.
C36_CheckMatchesPerform ==
    \A now \in LaterTimes :
       LET accepted == performUpkeep(con, now, [ok |-> TRUE, requestId |-> chain.requests + 1])
           refused == performUpkeep(con, now, [ok |-> FALSE, requestId |-> 0])
       IN  /\ checkUpkeep(con, now) = accepted.sent
           /\ checkUpkeep(con, now) = refused.reverted
           /\ ~checkUpkeep(con, now) =>
                 /\ accepted = Done(con) @@ [sent |-> FALSE]
                 /\ refused = accepted

\* Automation is on with a source, the interval has not passed since
\* performUpkeep sent a request, and it will have passed at a later block:
\* checkUpkeep is false now and true then.
C36_Witness ==
    /\ con.automationEnabled
    /\ con.source # <<>>
    /\ chain.autoSentAt = con.lastAutomationTimestamp
    /\ ~checkUpkeep(con, chain.now)
    /\ \E now \in LaterTimes :
          /\ now - con.lastAutomationTimestamp = con.updateInterval
          /\ checkUpkeep(con, now)

\* C37: no step makes a non-empty latestCertPayload empty, and once a
\* fulfilment has stored a payload (lastUpdateTimestamp is set) a call of
\* publishToWormhole finds a payload.
C37_PayloadStaysNonEmpty ==
    [][/\ con.latestCertPayload # <<>> => con'.latestCertPayload # <<>>
       /\ con'.lastUpdateTimestamp # 0 => con'.latestCertPayload # <<>>
       /\ (Called("publishToWormhole") /\ con.lastUpdateTimestamp # 0) =>
             conTx'.hadPayload]_vars

\* With a payload stored and published, a callback without response and
\* without error was accepted and the payload is still there.
C37_Witness ==
    /\ conTx.kind = "fulfillRequest"
    /\ ~conTx.reverted
    /\ conTx.response = <<>>
    /\ conTx.err = <<>>
    /\ con.latestCertPayload # <<>>
    /\ con.lastWormholeSequence # 0

\* ---------------------------------------------------------------------
\* GoogleCertEmitter (part_003): the contract the bot publishes through.
\* ---------------------------------------------------------------------

\* address(0), which no transaction is sent from.
ZeroAddress == "0x0"
Deployer == "deployer"
Senders == {"deployer", "wallet", "stranger"}
Addresses == Senders \cup {ZeroAddress}
Payloads == {<<>>, <<7>>}

EmitterReverted(st) == [reverted |-> TRUE, emitter |-> st]
EmitterDone(st) == [reverted |-> FALSE, emitter |-> st]

\* The modifier without its require: every sender passes.
onlyOwner_Anyone(st, sender) == TRUE

\* part_003 29-32
onlyOwner(st, sender) == sender = st.owner

\* part_003 35-39
transferOwnership(st, sender, newOwner) ==
    IF ~onlyOwner(st, sender) THEN EmitterReverted(st)
    ELSE IF newOwner = ZeroAddress THEN EmitterReverted(st)
    ELSE EmitterDone([st EXCEPT !.owner = newOwner])

\* part_003 49-68: the whole msg.value goes on to the Wormhole core, whose
\* revert reverts the transaction; the contract keeps nothing of it.
publishGoogleSnapshot(st, sender, value, wormholeOk) ==
    IF ~onlyOwner(st, sender) THEN EmitterReverted(st)
    ELSE IF ~wormholeOk THEN EmitterReverted(st)
    ELSE EmitterDone(st)

\* part_003 71-73: transfer reverts when the owner cannot take the ether.
emitterWithdraw(st, sender, transferOk) ==
    IF ~onlyOwner(st, sender) THEN EmitterReverted(st)
    ELSE IF ~transferOk THEN EmitterReverted(st)
    ELSE EmitterDone([st EXCEPT !.balance = 0])

\* part_003 75
emitterReceive(st, value) == EmitterDone([st EXCEPT !.balance = @ + value])

\* part_003 24-27: the deployer is the first owner.
EmitterInit ==
    /\ emitter = [owner |-> Deployer, balance |-> 0]
    /\ emitterTx = [kind |-> "constructor", sender |-> Deployer, reverted |-> FALSE]

TransferOwnership ==
    \E sender \in Senders, newOwner \in Addresses :
        LET out == transferOwnership(emitter, sender, newOwner)
        IN  /\ emitter' = out.emitter
            /\ emitterTx' = [kind |-> "transferOwnership", sender |-> sender,
                             newOwner |-> newOwner, reverted |-> out.reverted]
            /\ UNCHANGED emitterFrame

PublishGoogleSnapshot ==
    \E sender \in Senders, payload \in Payloads, value \in Values,
       wormholeOk \in BOOLEAN :
        LET out == publishGoogleSnapshot(emitter, sender, value, wormholeOk)
        IN  /\ emitter' = out.emitter
            /\ emitterTx' = [kind |-> "publishGoogleSnapshot", sender |-> sender,
                             payload |-> payload, value |-> value,
                             reverted |-> out.reverted]
            /\ UNCHANGED emitterFrame

EmitterWithdraw ==
    \E sender \in Senders, transferOk \in BOOLEAN :
        LET out == emitterWithdraw(emitter, sender, transferOk)
        IN  /\ emitter' = out.emitter
            /\ emitterTx' = [kind |-> "withdraw", sender |-> sender,
                             reverted |-> out.reverted]
            /\ UNCHANGED emitterFrame

EmitterReceive ==
    \E sender \in Senders, value \in Values :
        LET out == emitterReceive(emitter, value)
        IN  /\ out.emitter.balance \in Values
            /\ emitter' = out.emitter
            /\ emitterTx' = [kind |-> "receive", sender |-> sender,
                             value |-> value, reverted |-> out.reverted]
            /\ UNCHANGED emitterFrame

EmitterNext ==
    \/ TransferOwnership
    \/ PublishGoogleSnapshot
    \/ EmitterWithdraw
    \/ EmitterReceive

InitEmitter == EmitterInit /\ VaaIdle /\ AsnIdle /\ WatchIdle /\ CallIdle /\ ConIdle /\ AdapterIdle /\ PostIdle /\ BotIdle

SpecEmitter == InitEmitter /\ [][EmitterNext]_vars

OwnerOnlyCalls == {"publishGoogleSnapshot", "transferOwnership", "withdraw"}

\* C38: publishGoogleSnapshot, transferOwnership and withdraw sent by an
\* account that is not the owner at that moment revert and leave the storage
\* and the balance as they were; the owner changes only in a transferOwnership
\* sent by the current owner, to the address that call names, and the owner
\* is never the zero address.
C38_OnlyOwnerActs ==
    [][/\ (emitterTx'.kind \in OwnerOnlyCalls /\ emitterTx'.sender # emitter.owner)
            => (emitterTx'.reverted /\ emitter' = emitter)
       /\ emitter'.owner # emitter.owner
            => /\ emitterTx'.kind = "transferOwnership"
               /\ ~emitterTx'.reverted
               /\ emitterTx'.sender = emitter.owner
               /\ emitter'.owner = emitterTx'.newOwner
       /\ emitter'.owner # ZeroAddress]_vars

\* The ownership has moved to the wallet, and the deployer, the owner before,
\* has been turned away with ether still in the contract.
C38_Witness ==
    /\ emitter.owner = "wallet"
    /\ emitter.balance > 0
    /\ emitterTx.kind = "withdraw"
    /\ emitterTx.sender = Deployer
    /\ emitterTx.reverted

====
